---- MODULE Spec2Model ----
(***************************************************************************)
(* gninja (src/main.go): the tick-driven simulation core of a terminal     *)
(* side-view arena.  The world is the Game struct; every frame the run     *)
(* loop calls update(deltaTime), which calls updatePlayer, checkCollisions,*)
(* updateProjectiles, updateEnemies, updateDeathParticles (which starts    *)
(* with updateCorpses), updateBloodParticles and checkAndClearRedTiles in  *)
(* that order.  The model keeps the Game struct as the record g, the       *)
(* position of the run loop inside one frame as pc, and one action per     *)
(* function update calls.                                                  *)
(*                                                                         *)
(* Numbers.  float64 coordinates are fixed point: one terminal cell is     *)
(* Cell units, a velocity is units per second, a time is milliseconds.     *)
(* Products are truncated toward zero (MulDiv).  time.Now() is the clock   *)
(* now, read once per frame; a frame lasts dt milliseconds and deltaTime   *)
(* is dt capped at 100 ms as in run.  math/rand draws are choices from     *)
(* small sets.                                                             *)
(* Fields that only the renderer reads (Char, IsRed, Angle, AngularVel,    *)
(* Frame, HasSplattedFromPlatform, bloodColorMode) are left out.           *)
(***************************************************************************)
EXTENDS Integers, Sequences, FiniteSets, TLC

VARIABLES
    g,      \* the Game struct
    now,    \* time.Now() of the current frame, milliseconds
    dt,     \* the time one frame of this run takes, milliseconds
    pc,     \* where the run loop stands inside the current frame
    swept,  \* history: the projectile moves of the last updateProjectiles
    inputChan, \* the events waiting in the channel run reads from
    pending,   \* the events the goroutine of run has still to read from the screen
    handled,   \* history: the events run has received, in the order of receipt
    stainedBy  \* history: the stains left since the last reset by sources still alive

vars == <<g, now, dt, pc, swept, inputChan, pending, handled, stainedBy>>

----------------------------------------------------------------------------
(* Program constants *)

Cell == 100

PlayerWidth == 4
PlayerHeight == 3
EnemyWidth == 4
EnemyHeight == 3

gravity == 300 * Cell
bounceDamping == 40            \* percent
settleDelay == 3000            \* 3*time.Second
fallThroughMark == 999

(* Bounds of the model *)

MaxTicks == 40           \* frames of one run
MenuTicks == 6          \* the frame up to which the menu runs
ScriptLen == 12         \* events the goroutine reads from the screen in one run
SendTicks == 3          \* the frames during which the screen delivers them
MaxInput == 10          \* events waiting in inputChan when a run starts
MaxSpawns == 1          \* the spawn counter up to which opponents spawn
SpawnFrames == 2        \* opponents spawn during the first frames only
MaxFallsThrough == 1    \* pieces of one burst drawn to fall through the ground

----------------------------------------------------------------------------
(* Arithmetic *)

Abs(x) == IF x < 0 THEN -x ELSE x
Min(a, b) == IF a < b THEN a ELSE b
Max(a, b) == IF a > b THEN a ELSE b

\* a*b/c truncated toward zero
MulDiv(a, b, c) == IF a * b >= 0 THEN (a * b) \div c ELSE -((-(a * b)) \div c)

\* int(x) of a coordinate: the cell a fixed-point coordinate lies in
Trunc(x) == IF x >= 0 THEN x \div Cell ELSE -((-x) \div Cell)

RECURSIVE SqrtBetween(_, _, _)
SqrtBetween(n, lo, hi) ==
    IF lo >= hi THEN lo
    ELSE LET mid == (lo + hi + 1) \div 2
         IN  IF mid * mid <= n THEN SqrtBetween(n, mid, hi)
             ELSE SqrtBetween(n, lo, mid - 1)

\* math.Sqrt(v.X*v.X + v.Y*v.Y)
Magnitude(v) == SqrtBetween(v.X * v.X + v.Y * v.Y, 0, 40000)

\* pos + vel*deltaTime
Advance(pos, vel, d) == pos + MulDiv(vel, d, 1000)

Vec(x, y) == [X |-> x, Y |-> y]

RECURSIVE Concat(_)
Concat(ss) == IF ss = <<>> THEN <<>> ELSE Head(ss) \o Concat(Tail(ss))

Active(seq) == SelectSeq(seq, LAMBDA x : x.Active)

----------------------------------------------------------------------------
(* emitBloodFromParticle *)

\* the direction (vx, vy) turned by the k-th scatter angle: 0, +45, -45 degrees
Scatter(v, k) ==
    CASE k % 3 = 1 -> v
      [] k % 3 = 2 -> Vec(MulDiv(v.X - v.Y, 707, 1000), MulDiv(v.X + v.Y, 707, 1000))
      [] OTHER     -> Vec(MulDiv(v.X + v.Y, 707, 1000), MulDiv(v.Y - v.X, 707, 1000))

\* a vector of length len along v (along +X when v is zero, as math.Atan2(0, 0) = 0)
Along(v, len) ==
    LET m == Magnitude(v)
    IN  IF m = 0 THEN Vec(len, 0) ELSE Vec(MulDiv(v.X, len, m), MulDiv(v.Y, len, m))

\* numBlood: 3 + rand.Intn(4) scaled by intensity (impact), 1 + rand.Intn(2)
\* (continuous); the model draws the smallest count.  intensity is in percent.
numBlood(intensity, impact) ==
    IF impact THEN (3 * (100 + intensity)) \div 200 ELSE 1

bloodVelocity(p, impact, k) ==
    LET moving == Abs(p.Vel.X) > Cell \div 10 \/ Abs(p.Vel.Y) > Cell \div 10
        speed == IF impact THEN 20 * Cell + MulDiv(Magnitude(p.Vel), 3, 10)
                 ELSE 10 * Cell
        dir == IF impact THEN Along(p.Vel, speed)
               ELSE IF moving THEN Along(Vec(-p.Vel.X, -p.Vel.Y), speed)
               ELSE Vec(speed, 0)
        v == Scatter(dir, k)
    IN  Vec(v.X, v.Y - 5 * Cell)

bloodLifetime(impact, k) ==
    IF impact THEN (IF k % 2 = 1 THEN 400 ELSE 1000)
    ELSE (IF k % 2 = 1 THEN 300 ELSE 800)

emitBloodFromParticle(p, intensity, impact) ==
    [k \in 1..numBlood(intensity, impact) |->
        [Pos |-> p.Pos,
         Vel |-> bloodVelocity(p, impact, k),
         Active |-> TRUE,
         Lifetime |-> bloodLifetime(impact, k),
         EnemyID |-> p.EnemyID]]

\* math.Min(speed/scale, cap), in percent
Intensity(speed, scale, cap) == Min((speed * 100) \div (scale * Cell), cap)

----------------------------------------------------------------------------
(* updateDeathParticles: one fragment of the loop at lines 1497-1764.      *)
(* A step carries the fragment p and the blood it has emitted so far.      *)

rollingHead(p) == p.IsHead /\ p.IsRolling /\ p.RollDistance > 0

\* a faulty test that lets a fragment bounce a third time; C1 must tell it
\* from shouldBounce
shouldBounceThrice(p) == p.Bounces < 3 /\ p.Vel.Y > 20 * Cell

\* lines 1552 and 1633: bounce while fewer than 2 bounces and faster than 20
shouldBounce(p) == p.Bounces < 2 /\ p.Vel.Y > 20 * Cell

\* lines 1554-1557, 1636-1639: a bounce is counted, reverses and damps the
\* vertical speed, and slows the fragment sideways
bounce(p) ==
    [p EXCEPT !.Bounces = @ + 1,
              !.Vel.Y = -MulDiv(p.Vel.Y, bounceDamping, 100),
              !.Vel.X = MulDiv(p.Vel.X, 8, 10),
              !.OnGround = FALSE]

\* faulty timers: one that runs out after 2 s (C2 must tell it from
\* settleExpired) and one that also removes the fragments of the player (C3)
settleExpiredEarly(p, t) ==
    p.EnemyID # 0 /\ ~rollingHead(p) /\ t - p.GroundTime >= settleDelay - 1000
settleExpiredAnyone(p, t) == ~rollingHead(p) /\ t - p.GroundTime >= settleDelay

\* a faulty timer that never runs out for a head; C35 must tell it from
\* settleExpired
settleExpiredBodyOnly(p, t) ==
    p.EnemyID # 0 /\ ~p.IsHead /\ ~rollingHead(p) /\ t - p.GroundTime >= settleDelay

\* lines 1602 and 1704: the 3 s timer of a settled opponent fragment
settleExpired(p, t) ==
    p.EnemyID # 0 /\ ~rollingHead(p) /\ t - p.GroundTime >= settleDelay

isInAir(p) == ~p.OnGround /\ (Abs(p.Vel.X) > Cell \div 10 \/ Abs(p.Vel.Y) > Cell \div 10)

\* lines 1505-1522: blood trailing a fragment in the air
trailBlood(s, t) ==
    LET p == s.p
        speed == Magnitude(p.Vel)
        emitInterval == Max(150 - (speed * 8) \div (10 * Cell), 30)
    IN  IF isInAir(p) /\ t - p.LastBloodEmit >= emitInterval
        THEN [p |-> [p EXCEPT !.LastBloodEmit = t],
              blood |-> s.blood \o emitBloodFromParticle(p, Intensity(speed, 100, 70), FALSE)]
        ELSE s

\* lines 1524-1532: gravity and movement
integrate(s, d) ==
    LET p == s.p
        vy == IF ~(p.OnGround /\ p.Vel.Y = 0) THEN p.Vel.Y + MulDiv(gravity, d, 1000)
              ELSE p.Vel.Y
    IN  [s EXCEPT !.p.Vel.Y = vy,
                  !.p.Pos.X = Advance(p.Pos.X, p.Vel.X, d),
                  !.p.Pos.Y = Advance(p.Pos.Y, vy, d)]

\* lines 1538-1542
isOnPlatform(p, platform) ==
    /\ p.Pos.X < platform.X + platform.Width
    /\ p.Pos.X + Cell > platform.X
    /\ p.Pos.Y + Cell >= platform.Y
    /\ p.Pos.Y + Cell <= platform.Y + platform.Height + Cell

\* the platform the loop at line 1536 stops at (0: none)
firstPlatform(p, platforms) ==
    LET hit == {i \in 1..Len(platforms) : isOnPlatform(p, platforms[i])}
    IN  IF hit = {} THEN 0 ELSE CHOOSE i \in hit : \A j \in hit : i <= j

\* an impact burst scaled by the vertical speed: math.Min(math.Abs(p.Vel.Y)/60, 1)
impactBlood(p) == emitBloodFromParticle(p, Intensity(Abs(p.Vel.Y), 60, 100), TRUE)

\* lines 1544-1587: a fragment over a platform
platformCollision(s, platform, t) ==
    LET p == s.p
    IN  IF p.Vel.Y > 0 /\ p.Pos.Y < platform.Y
        THEN LET q == [p EXCEPT !.Pos.Y = platform.Y - Cell]
             IN  IF shouldBounce(q)
                 THEN LET b == [bounce(q) EXCEPT !.BouncedFromPlatform = TRUE]
                      IN  [p |-> b, blood |-> s.blood \o impactBlood(b)]
                 ELSE IF ~q.OnGround
                      THEN [s EXCEPT !.p = [q EXCEPT !.Vel.Y = 0, !.OnGround = TRUE,
                                                     !.GroundTime = t, !.Vel.X = 0,
                                                     !.WasOnPlatform = TRUE]]
                      ELSE [s EXCEPT !.p = [q EXCEPT !.Vel.Y = 0]]
        ELSE IF p.Vel.Y = 0 /\ p.Pos.Y <= platform.Y
        THEN LET q == [p EXCEPT !.Pos.Y = platform.Y - Cell]
             IN  IF ~q.OnGround
                 THEN [s EXCEPT !.p = [q EXCEPT !.OnGround = TRUE,
                                                !.GroundTime = IF @ = 0 THEN t ELSE @,
                                                !.WasOnPlatform = TRUE]]
                 ELSE [s EXCEPT !.p = q]
        ELSE s

\* lines 1593-1605: a fragment resting on a platform
platformRest(s, t) ==
    LET p == s.p
        q == IF ~rollingHead(p) THEN [p EXCEPT !.Vel.X = 0] ELSE p
    IN  IF p.OnGround /\ p.Vel.Y = 0
        THEN [s EXCEPT !.p = IF settleExpired(q, t) THEN [q EXCEPT !.Active = FALSE] ELSE q]
        ELSE s

\* lines 1631-1684: a fragment moving down at the ground: bounce or settle
groundImpact(s, t) ==
    LET p == s.p
    IN  IF shouldBounce(p)
        THEN LET wasBouncing == p.Bounces > 0
                 b == bounce(p)
             IN  IF b.BouncedFromPlatform
                 THEN [p |-> [b EXCEPT !.BouncedFromPlatform = FALSE],
                       blood |-> s.blood \o impactBlood(b)]
                 ELSE IF wasBouncing \/ b.Bounces = 1
                 THEN [p |-> b, blood |-> s.blood \o impactBlood(b)]
                 ELSE [s EXCEPT !.p = b]
        ELSE LET q == [p EXCEPT !.Vel.Y = 0]
             IN  IF ~q.OnGround
                 THEN [p |-> [q EXCEPT !.BouncedFromPlatform = FALSE,
                                       !.OnGround = TRUE,
                                       !.GroundTime = t,
                                       !.Vel.X = IF rollingHead(q) THEN q.RollSpeed ELSE 0],
                       blood |-> s.blood \o (IF q.BouncedFromPlatform THEN impactBlood(q) ELSE <<>>)]
                 ELSE [s EXCEPT !.p = IF ~rollingHead(q) THEN [q EXCEPT !.Vel.X = 0] ELSE q]

\* lines 1685-1707: a fragment at the ground with no vertical speed
groundRest(s, t) ==
    LET p == s.p
        a == IF ~p.OnGround
             THEN [p EXCEPT !.OnGround = TRUE, !.GroundTime = t,
                            !.Vel.X = IF rollingHead(p) THEN p.RollSpeed ELSE @]
             ELSE p
        b == IF ~rollingHead(a) THEN [a EXCEPT !.Vel.X = 0] ELSE a
    IN  [s EXCEPT !.p = IF settleExpired(b, t) THEN [b EXCEPT !.Active = FALSE] ELSE b]

\* lines 1619-1629: the fragment is put on the ground line; the first touch
\* while moving down splatters
touchGround(s, groundY, t) ==
    IF ~s.p.HasHitGround /\ s.p.Vel.Y > 0
    THEN [p |-> [s.p EXCEPT !.Pos.Y = groundY, !.HasHitGround = TRUE, !.LastBloodEmit = t],
          blood |-> s.blood \o impactBlood([s.p EXCEPT !.Pos.Y = groundY])]
    ELSE [s EXCEPT !.p.Pos.Y = groundY]

\* lines 1631-1707
groundLanding(s, t) ==
    IF s.p.Vel.Y > 0 THEN groundImpact(s, t)
    ELSE IF s.p.Vel.Y = 0 THEN groundRest(s, t)
    ELSE s

\* lines 1607-1710: the ground plane, for a fragment over no platform
\* a faulty ground plane that lets a fragment through once only and then
\* treats it as any other fragment; C21 must tell it from groundCollision
groundCollisionOnce(s, groundY, t) ==
    IF s.p.Pos.Y < groundY THEN s
    ELSE IF s.p.FallsThrough /\ s.p.Vel.Y > 0 /\ s.p.Bounces = 0
    THEN [p |-> [s.p EXCEPT !.Bounces = fallThroughMark],
          blood |-> s.blood \o impactBlood(s.p)]
    ELSE groundLanding(touchGround(s, groundY, t), t)

\* lines 1607-1710: the ground plane, for a fragment over no platform

groundCollision(s, groundY, t) ==
    IF s.p.Pos.Y < groundY THEN s
    ELSE IF s.p.FallsThrough /\ s.p.Vel.Y > 0 /\ s.p.Bounces = 0
    THEN [p |-> [s.p EXCEPT !.Bounces = fallThroughMark],
          blood |-> s.blood \o impactBlood(s.p)]
    ELSE IF ~s.p.FallsThrough \/ s.p.Bounces < fallThroughMark
    THEN groundLanding(touchGround(s, groundY, t), t)
    ELSE s

\* a faulty roll that ends without stopping the head; C29 must tell it from
\* rolling
rollingOn(s, t, d) ==
    LET p == s.p
    IN  IF p.OnGround /\ p.Vel.Y = 0 /\ rollingHead(p)
        THEN LET r1 == [p EXCEPT !.RollDistance = @ - MulDiv(Abs(p.Vel.X), d, 1000),
                                 !.Vel.X = MulDiv(@, 95, 100)]
             IN  [s EXCEPT !.p = IF r1.RollDistance <= 0
                                 THEN [r1 EXCEPT !.IsRolling = FALSE, !.RollDistance = 0]
                                 ELSE r1]
        ELSE IF p.OnGround /\ p.Vel.Y = 0 /\ ~rollingHead(p)
        THEN [s EXCEPT !.p.Vel.X = 0, !.p.Vel.Y = 0]
        ELSE s

\* lines 1717-1758: a head rolling on the ground
rolling(s, t, d) ==
    LET p == s.p
    IN  IF p.OnGround /\ p.Vel.Y = 0 /\ rollingHead(p)
        THEN LET currentSpeed == Abs(p.Vel.X)
                 r1 == [p EXCEPT !.RollDistance = @ - MulDiv(currentSpeed, d, 1000)]
                 emitInterval == Max(200 - (currentSpeed * 15) \div (10 * Cell), 50)
                 emit == currentSpeed > Cell \div 10 /\ t - p.LastBloodEmit >= emitInterval
                 r2 == IF emit THEN [r1 EXCEPT !.LastBloodEmit = t] ELSE r1
                 r3 == [r2 EXCEPT !.Vel.X = MulDiv(@, 95, 100)]
                 r4 == IF r3.RollDistance <= 0 \/ Abs(r3.Vel.X) < Cell \div 2
                       THEN [r3 EXCEPT !.Vel.X = 0, !.IsRolling = FALSE, !.RollDistance = 0,
                                       !.GroundTime = IF r3.EnemyID # 0 THEN t ELSE @]
                       ELSE r3
             IN  [p |-> r4,
                  blood |-> s.blood \o
                      (IF emit
                       THEN emitBloodFromParticle(r1, Intensity(currentSpeed, 60, 60), FALSE)
                       ELSE <<>>)]
        ELSE IF p.OnGround /\ p.Vel.Y = 0 /\ ~rollingHead(p)
        THEN [s EXCEPT !.p.Vel.X = 0, !.p.Vel.Y = 0]
        ELSE s

\* lines 1712-1715 and 1760-1763: a fragment outside the viewport
belowViewport(p, G) == p.Pos.Y > G.height * Cell
besideViewport(p, G) == p.Pos.X < -10 * Cell \/ p.Pos.X > (G.width + 10) * Cell

\* lines 1534-1710: the platform under the fragment, or else the ground
surface(s, G, t) ==
    LET k == firstPlatform(s.p, G.platforms)
    IN  IF k # 0 THEN platformRest(platformCollision(s, G.platforms[k], t), t)
        ELSE groundCollision(s, (G.groundY - 1) * Cell, t)

dropBelow(s, G) == IF belowViewport(s.p, G) THEN [s EXCEPT !.p.Active = FALSE] ELSE s
dropBeside(s, G) == IF besideViewport(s.p, G) THEN [s EXCEPT !.p.Active = FALSE] ELSE s

\* the body of the loop at lines 1497-1764 for the fragment p
stepDeathParticle(p, G, t, d) ==
    dropBeside(rolling(dropBelow(surface(integrate(trailBlood([p |-> p, blood |-> <<>>], t),
                                                   d), G, t), G), t, d), G)

\* lines 1485-1495: once the round is over only the fragments of the player stay
purgeOpponentDebris(G, seq) ==
    IF G.gameOver THEN SelectSeq(seq, LAMBDA x : x.EnemyID = 0) ELSE seq

\* updateDeathParticles after its call of updateCorpses
updateDeathParticles(G, t, d) ==
    LET kept == purgeOpponentDebris(G, G.deathParticles)
        res == [i \in 1..Len(kept) |->
                   IF kept[i].Active THEN stepDeathParticle(kept[i], G, t, d)
                   ELSE [p |-> kept[i], blood |-> <<>>]]
    IN  [G EXCEPT !.deathParticles = Active([i \in 1..Len(res) |-> res[i].p]),
                  !.bloodParticles = @ \o Concat([i \in 1..Len(res) |-> res[i].blood])]

----------------------------------------------------------------------------
(* Debris bursts: createPlayerDeathParticles, createDeathParticles,        *)
(* createDeathParticlesAt, createDecap.                                    *)

\* the glyph offsets of a body (SpritePiece x, y); the head is piece headOf
enemyPieces == << <<1, 0>>, <<0, 1>>, <<1, 1>>, <<2, 1>>, <<0, 2>>, <<2, 2>> >>
playerPieces(facing) ==
    IF facing = 1
    THEN << <<0, 0>>, <<1, 0>>, <<0, 1>>, <<1, 1>>, <<2, 1>>, <<0, 2>>, <<2, 2>> >>
    ELSE << <<1, 0>>, <<2, 0>>, <<0, 1>>, <<1, 1>>, <<2, 1>>, <<0, 2>>, <<2, 2>> >>
playerHead(facing) == IF facing = 1 THEN 2 ELSE 1

\* launch velocities (velX, velY) inside the ranges of lines 1052-1055:
\* |velX| < 50 and -65 < velY < 10, in cells per second
Launches ==
    << Vec(30 * Cell, -25 * Cell), Vec(-40 * Cell, -40 * Cell), Vec(0, -65 * Cell),
       Vec(0, 10 * Cell), Vec(21 * Cell, -17 * Cell), Vec(-21 * Cell, -48 * Cell),
       Vec(45 * Cell, -60 * Cell) >>

\* the rolls a head can draw: none, or RollDistance in 20..50 and RollSpeed in
\* +-(40..60)
RollDraws ==
    { [dist |-> 0, speed |-> 0],
      [dist |-> 20 * Cell, speed |-> -40 * Cell] }

\* the draws of one burst: decapitation, the pieces that fall through the
\* ground, the roll of the head; a burst draws at most one of the three
FallPieces == {1, 2}
BurstDraws ==
    { r \in [decap : BOOLEAN,
             falls : {f \in SUBSET FallPieces : Cardinality(f) <= MaxFallsThrough},
             roll  : RollDraws,
             launch : {1}] :
        Cardinality({r.decap} \cap {TRUE}) + Cardinality({r.falls} \ {{}})
            + Cardinality({r.roll.dist} \ {0}) <= 1 }

\* the wander of a corpse: MoveDir, DirDuration in 200..799 ms, life 2000..3999 ms
CorpseDraws == [moveDir : {-1, 1}, dirDuration : {799}, life : {2200}]

\* one DeathParticle literal (lines 1060-1082)
newParticle(pos, vel, enemyID, falls, isHead, roll, wasOnPlatform, t) ==
    [Pos |-> pos, Vel |-> vel, OnGround |-> FALSE, Bounces |-> 0, GroundTime |-> 0,
     Active |-> TRUE, EnemyID |-> enemyID, FallsThrough |-> falls, IsHead |-> isHead,
     IsRolling |-> isHead /\ roll.dist > 0,
     RollDistance |-> IF isHead THEN roll.dist ELSE 0,
     RollSpeed |-> IF isHead THEN roll.speed ELSE 0,
     BouncedFromPlatform |-> FALSE, WasOnPlatform |-> wasOnPlatform,
     LastBloodEmit |-> t, HasHitGround |-> FALSE]

\* the initial burst of a fresh fragment: math.Min(initialSpeed/80, 1)
spawnBlood(p) == emitBloodFromParticle(p, Intensity(Magnitude(p.Vel), 80, 100), TRUE)

\* the loop over pieces (lines 1028-1090): one fragment and its blood per piece
burst(pieces, head, pos, enemyID, wasOnPlatform, r, t) ==
    LET frag(i) == newParticle(
                       Vec(pos.X + pieces[i][1] * Cell, pos.Y + pieces[i][2] * Cell),
                       Launches[((i + r.launch - 2) % Len(Launches)) + 1],
                       enemyID, i \in r.falls, i = head, r.roll, wasOnPlatform, t)
    IN  [particles |-> [i \in 1..Len(pieces) |-> frag(i)],
         blood |-> Concat([i \in 1..Len(pieces) |-> spawnBlood(frag(i))])]

addBurst(G, b) ==
    [G EXCEPT !.deathParticles = @ \o b.particles, !.bloodParticles = @ \o b.blood]

createPlayerDeathParticles(G, r, t) ==
    addBurst(G, burst(playerPieces(G.player.Facing), playerHead(G.player.Facing),
                      G.player.Pos, 0, FALSE, r, t))

\* lines 985-996 and 1190-1200: the body stands on top of a platform
standsOnPlatform(G, e) ==
    \E i \in 1..Len(G.platforms) :
        LET platform == G.platforms[i]
        IN  /\ e.Pos.X < platform.X + platform.Width
            /\ e.Pos.X + EnemyWidth * Cell > platform.X
            /\ Abs(e.Pos.Y + EnemyHeight * Cell - platform.Y) < 2 * Cell

\* a faulty conversion that draws a fresh id for the fragments of a corpse;
\* C28 must tell it from createDeathParticlesAt
createDeathParticlesAtFresh(G, pos, facing, enemyID, wasOnPlatform, r, t) ==
    addBurst([G EXCEPT !.nextEnemyID = @ + 1],
             burst(enemyPieces, 1, pos, G.nextEnemyID, wasOnPlatform, r, t))

createDeathParticlesAt(G, pos, facing, enemyID, wasOnPlatform, r, t) ==
    addBurst(G, burst(enemyPieces, 1, pos, enemyID, wasOnPlatform, r, t))

\* the draws of createDecap: the head always rolls
decapRoll(r) ==
    IF r.roll.dist > 0 THEN r.roll ELSE [dist |-> 20 * Cell, speed |-> 40 * Cell]

createDecap(G, e, r, c, t) ==
    LET enemyID == G.nextEnemyID
        head == newParticle(Vec(e.Pos.X + Cell, e.Pos.Y), Launches[r.launch], enemyID,
                            FALSE, TRUE, decapRoll(r), FALSE, t)
        corp == [Pos |-> e.Pos, Vel |-> e.Vel, Facing |-> e.Facing, OnGround |-> FALSE,
                 Active |-> TRUE, EnemyID |-> enemyID, EndTime |-> t + c.life,
                 MoveDir |-> c.moveDir, LastDirChange |-> t,
                 DirDuration |-> c.dirDuration, LastBloodEmit |-> t,
                 WasOnPlatform |-> standsOnPlatform(G, e)]
    IN  [G EXCEPT !.nextEnemyID = enemyID + 1,
                  !.deathParticles = Append(@, head),
                  !.bloodParticles = @ \o spawnBlood(head),
                  !.corpses = Append(@, corp)]

\* a faulty burst that numbers the opponents from 0; C27 must tell it from
\* createDeathParticles
createDeathParticlesFromZero(G, e, r, c, t) ==
    IF r.decap THEN createDecap(G, e, r, c, t)
    ELSE LET enemyID == G.nextEnemyID - 1
         IN  addBurst([G EXCEPT !.nextEnemyID = enemyID + 2],
                      burst(enemyPieces, 1, e.Pos, enemyID, standsOnPlatform(G, e), r, t))

createDeathParticles(G, e, r, c, t) ==
    IF r.decap THEN createDecap(G, e, r, c, t)
    ELSE LET enemyID == G.nextEnemyID
         IN  addBurst([G EXCEPT !.nextEnemyID = enemyID + 1],
                      burst(enemyPieces, 1, e.Pos, enemyID, standsOnPlatform(G, e), r, t))

----------------------------------------------------------------------------
(* updateCorpses *)

\* line 1364: now.After(c.EndTime)
corpseExpired(c, t) == t > c.EndTime

\* lines 1287-1347: the wander, gravity and landing of one corpse
corpseTurns(c, t) == t - c.LastDirChange >= c.DirDuration

moveCorpse(c0, G, c, flip, t, d) ==
    LET turn == corpseTurns(c0, t)
        c1 == IF turn
              THEN [c0 EXCEPT !.LastDirChange = t, !.DirDuration = c.dirDuration,
                              !.MoveDir = IF flip THEN -@ ELSE @]
              ELSE c0
        vy == c1.Vel.Y + MulDiv(gravity, d, 1000)
        c2 == [c1 EXCEPT !.Pos.X = Advance(@, c1.MoveDir * 25 * Cell, d),
                         !.Vel.Y = vy,
                         !.Pos.Y = Advance(@, vy, d)]
        bottom == c2.Pos.Y + EnemyHeight * Cell
        hit == {i \in 1..Len(G.platforms) :
                   /\ c2.Pos.X < G.platforms[i].X + G.platforms[i].Width
                   /\ c2.Pos.X + EnemyWidth * Cell > G.platforms[i].X
                   /\ bottom >= G.platforms[i].Y
                   /\ bottom <= G.platforms[i].Y + G.platforms[i].Height + Cell}
        onPlatform == hit # {}
        platform == G.platforms[CHOOSE i \in hit : \A j \in hit : i <= j]
        groundY == (G.groundY - EnemyHeight) * Cell
        c3 == IF onPlatform
              THEN IF c2.Vel.Y > 0 /\ c2.Pos.Y < platform.Y
                   THEN [c2 EXCEPT !.Pos.Y = platform.Y - EnemyHeight * Cell, !.Vel.Y = 0,
                                   !.OnGround = TRUE, !.WasOnPlatform = TRUE]
                   ELSE c2
              ELSE IF c2.Pos.Y >= groundY
                   THEN [c2 EXCEPT !.Pos.Y = groundY, !.Vel.Y = IF @ > 0 THEN 0 ELSE @,
                                   !.OnGround = TRUE]
                   ELSE [c2 EXCEPT !.OnGround = FALSE]
        c4 == IF c3.Pos.X < 0 THEN [c3 EXCEPT !.Pos.X = 0, !.MoveDir = 1] ELSE c3
    IN  IF c4.Pos.X > (G.width - EnemyWidth) * Cell
        THEN [c4 EXCEPT !.Pos.X = (G.width - EnemyWidth) * Cell, !.MoveDir = -1]
        ELSE c4

\* lines 1349-1361: the blood a corpse squirts every 80 ms
corpseBlood(c, t) ==
    IF t - c.LastBloodEmit >= 80
    THEN emitBloodFromParticle(
             [Pos |-> Vec(c.Pos.X + Cell, c.Pos.Y + Cell),
              Vel |-> Vec(c.MoveDir * 25 * Cell, -10 * Cell),
              EnemyID |-> c.EnemyID],
             Min((Abs(c.MoveDir) * 25 * 140) \div 80 + 15, 100), FALSE)
    ELSE <<>>

\* a faulty expiry that leaves the corpse active; C4 must tell it from
\* expireCorpse
expireCorpseStaysActive(G, c, r, t) ==
    [G1 |-> createDeathParticlesAt(G, c.Pos, c.Facing, c.EnemyID, c.WasOnPlatform, r, t),
     c |-> c]

\* lines 1363-1368: an expired corpse breaks apart and is switched off
expireCorpse(G, c, r, t) ==
    [G1 |-> createDeathParticlesAt(G, c.Pos, c.Facing, c.EnemyID, c.WasOnPlatform, r, t),
     c |-> [c EXCEPT !.Active = FALSE]]

RECURSIVE corpseLoop(_, _, _, _, _, _, _)
corpseLoop(G, i, r, c, flip, t, d) ==
    IF i > Len(G.corpses) THEN G
    ELSE IF ~G.corpses[i].Active THEN corpseLoop(G, i + 1, r, c, flip, t, d)
    ELSE LET m == moveCorpse(G.corpses[i], G, c, flip, t, d)
             b == corpseBlood(m, t)
             m1 == IF t - m.LastBloodEmit >= 80 THEN [m EXCEPT !.LastBloodEmit = t] ELSE m
             G1 == [G EXCEPT !.bloodParticles = @ \o b]
             x == IF corpseExpired(m1, t) THEN expireCorpse(G1, m1, r, t)
                  ELSE [G1 |-> G1, c |-> m1]
         IN  corpseLoop([x.G1 EXCEPT !.corpses[i] = x.c], i + 1, r, c, flip, t, d)

updateCorpses(G, r, c, flip, t, d) == corpseLoop(G, 1, r, c, flip, t, d)

----------------------------------------------------------------------------
(* Stain registry: isTileUnderPlatform, markGroundRed, markPlatformRed,    *)
(* checkAndClearRedTiles.  A map[int]int is a set of <<key, value>> pairs  *)
(* with one pair per key.                                                  *)

keysOf(m) == {kv[1] : kv \in m}
put(m, k, v) == {kv \in m : kv[1] # k} \cup {<<k, v>>}

isTileUnderPlatform(G, x) ==
    \E i \in 1..Len(G.platforms) :
        x >= Trunc(G.platforms[i].X) /\ x < Trunc(G.platforms[i].X + G.platforms[i].Width)

\* a faulty marking that forgets the platform above the tile; C30 must tell
\* it from markGroundRed
markGroundRedAlways(G, tileX, enemyID, wasOnPlatform) ==
    IF tileX >= 0 /\ tileX < G.width
    THEN [G EXCEPT !.redGroundTiles = put(@, tileX, enemyID)]
    ELSE G

markGroundRed(G, tileX, enemyID, wasOnPlatform) ==
    IF tileX >= 0 /\ tileX < G.width /\ (~wasOnPlatform \/ ~isTileUnderPlatform(G, tileX))
    THEN [G EXCEPT !.redGroundTiles = put(@, tileX, enemyID)]
    ELSE G

markPlatformRed(G, platformIndex, tileX, enemyID) ==
    [G EXCEPT !.redPlatformTiles = put(@, platformIndex * 10000 + tileX, enemyID)]

\* lines 1857-1871: the source ids that still have an active fragment or blood
activeEnemyIDs(G) ==
    {G.deathParticles[i].EnemyID : i \in {j \in 1..Len(G.deathParticles) : G.deathParticles[j].Active}}
    \cup
    {G.bloodParticles[i].EnemyID : i \in {j \in 1..Len(G.bloodParticles) : G.bloodParticles[j].Active}}

\* faulty sweeps: one that removes nothing (C5 must tell it from sweepTiles)
\* and one that removes a single stale entry per call (C8)
sweepNothing(tiles, ids) == tiles
sweepOneTile(tiles, ids) ==
    LET stale == {kv \in tiles : kv[2] \notin ids}
    IN  IF stale = {} THEN tiles
        ELSE tiles \ {CHOOSE kv \in stale : \A other \in stale : kv[1] <= other[1]}

\* lines 1873-1897: the entries of one stain map that survive the sweep
sweepTiles(tiles, ids) == {kv \in tiles : kv[2] \in ids}

checkAndClearRedTiles(G) ==
    [G EXCEPT !.redGroundTiles = sweepTiles(@, activeEnemyIDs(G)),
              !.redPlatformTiles = sweepTiles(@, activeEnemyIDs(G))]

----------------------------------------------------------------------------
(* updateBloodParticles *)

\* lines 1808-1823: the platform a blood particle touches (0: none)
bloodPlatform(p, platforms) ==
    LET hit == {i \in 1..Len(platforms) :
                   /\ p.Pos.X < platforms[i].X + platforms[i].Width
                   /\ p.Pos.X + Cell > platforms[i].X
                   /\ p.Pos.Y < platforms[i].Y + platforms[i].Height
                   /\ p.Pos.Y + Cell > platforms[i].Y}
    IN  IF hit = {} THEN 0 ELSE CHOOSE i \in hit : \A j \in hit : i <= j

\* a faulty step that also ends a blood particle at the ground; C22 must tell
\* it from stepBlood
stepBloodAtGround(p, G, hitPlatform, d) ==
    LET q == [p EXCEPT !.Lifetime = @ - d]
    IN  [q EXCEPT !.Active =
            ~(\/ hitPlatform
              \/ q.Pos.Y >= G.groundY * Cell
              \/ q.Lifetime <= 0
              \/ q.Pos.X < -10 * Cell
              \/ q.Pos.X > (G.width + 10) * Cell
              \/ q.Pos.Y > G.height * Cell)]

\* a faulty step in which a lifetime that has run out does not end the
\* particle; C36 must tell it from stepBlood
stepBloodForever(p, G, hitPlatform, d) ==
    LET q == [p EXCEPT !.Lifetime = @ - d]
    IN  [q EXCEPT !.Active =
            ~(\/ hitPlatform
              \/ q.Pos.X < -10 * Cell
              \/ q.Pos.X > (G.width + 10) * Cell
              \/ q.Pos.Y > G.height * Cell)]

\* lines 1799-1804 and 1833-1842: the particle itself, given the platform hit
stepBlood(p, G, hitPlatform, d) ==
    LET q == [p EXCEPT !.Lifetime = @ - d]
    IN  [q EXCEPT !.Active =
            ~(\/ hitPlatform
              \/ q.Lifetime <= 0
              \/ q.Pos.X < -10 * Cell
              \/ q.Pos.X > (G.width + 10) * Cell
              \/ q.Pos.Y > G.height * Cell)]

fallBlood(p, d) ==
    LET vy == p.Vel.Y + MulDiv(gravity, d, 1000)
    IN  [p EXCEPT !.Vel.Y = vy, !.Pos.X = Advance(@, p.Vel.X, d), !.Pos.Y = Advance(@, vy, d)]

\* a faulty stain that does not look at the tile index; C31 must tell it from
\* bloodStain
bloodStainUnchecked(G, p) ==
    LET k == bloodPlatform(p, G.platforms)
        tileX == Trunc(p.Pos.X)
    IN  IF k # 0 THEN markPlatformRed(G, k - 1, tileX, p.EnemyID)
        ELSE IF p.Pos.Y >= G.groundY * Cell
        THEN [G EXCEPT !.redGroundTiles = put(@, tileX, p.EnemyID)]
        ELSE G

\* lines 1806-1831: the stain a moved blood particle commits
bloodStain(G, p) ==
    LET k == bloodPlatform(p, G.platforms)
        tileX == Trunc(p.Pos.X)
        inRange == tileX >= 0 /\ tileX < G.width
    IN  IF k # 0
        THEN IF inRange THEN markPlatformRed(G, k - 1, tileX, p.EnemyID) ELSE G
        ELSE IF p.Pos.Y >= G.groundY * Cell /\ inRange
        THEN markGroundRed(G, tileX, p.EnemyID, FALSE)
        ELSE G

RECURSIVE bloodLoop(_, _, _)
bloodLoop(G, i, d) ==
    IF i > Len(G.bloodParticles) THEN G
    ELSE IF ~G.bloodParticles[i].Active THEN bloodLoop(G, i + 1, d)
    ELSE LET p == fallBlood(G.bloodParticles[i], d)
             G1 == bloodStain(G, p)
             q == stepBlood(p, G, bloodPlatform(p, G.platforms) # 0, d)
         IN  bloodLoop([G1 EXCEPT !.bloodParticles[i] = q], i + 1, d)

updateBloodParticles(G, d) ==
    LET G0 == [G EXCEPT !.bloodParticles = purgeOpponentDebris(G, @)]
        G1 == bloodLoop(G0, 1, d)
    IN  [G1 EXCEPT !.bloodParticles = Active(@)]

----------------------------------------------------------------------------
(* updatePlayer *)

keyTimeout == 150
coyoteTime == 100

\* a key counts as held for keyTimeout after its last press (0: never pressed)
pressed(G, key, t) == G.keys[key] # 0 /\ t - G.keys[key] < keyTimeout

\* lines 557-563 and 774-780: the actor's box overlaps the platform while the
\* actor moves down with its top above the platform's top
landsOn(a, w, h, platform) ==
    /\ a.Pos.X < platform.X + platform.Width
    /\ a.Pos.X + w * Cell > platform.X
    /\ a.Pos.Y < platform.Y + platform.Height
    /\ a.Pos.Y + h * Cell > platform.Y
    /\ a.Vel.Y > 0
    /\ a.Pos.Y < platform.Y

\* the platform the loops at lines 555 and 772 land the actor on (0: none)
landingPlatform(a, w, h, platforms) ==
    LET hit == {i \in 1..Len(platforms) : landsOn(a, w, h, platforms[i])}
    IN  IF hit = {} THEN 0 ELSE CHOOSE i \in hit : \A j \in hit : i <= j

\* lines 500-529: facing and horizontal movement
walkPlayer(pl, G, t, d) ==
    LET speed == IF pl.OnGround THEN 50 * Cell ELSE 45 * Cell
        left == pressed(G, "Left", t)
        right == pressed(G, "Right", t)
        step == MulDiv(speed, d, 1000)
    IN  [pl EXCEPT !.Facing = IF right THEN 1 ELSE IF left THEN -1 ELSE @,
                   !.MoveDir = IF right THEN 1 ELSE IF left THEN -1 ELSE 0,
                   !.Pos.X = @ - (IF left THEN step ELSE 0) + (IF right THEN step ELSE 0)]

\* a faulty jump that needs no support and no window; C23 must tell it from
\* jumpPlayer
jumpPlayerAnytime(pl, G, t, d) ==
    LET p1 == IF pressed(G, "Up", t)
              THEN [pl EXCEPT !.Vel.Y = -85 * Cell, !.OnGround = FALSE, !.OnPlatform = FALSE]
              ELSE pl
        vy == IF ~p1.OnGround THEN p1.Vel.Y + MulDiv(gravity, d, 1000) ELSE p1.Vel.Y
    IN  [p1 EXCEPT !.Vel.Y = vy, !.Pos.Y = Advance(@, vy, d)]

\* lines 531-550: jump, gravity, vertical movement
jumpPlayer(pl, G, t, d) ==
    LET canJump == \/ pl.OnGround
                   \/ pl.OnPlatform
                   \/ (~pl.OnGround /\ ~pl.OnPlatform /\ t - pl.LastOnGroundTime < coyoteTime)
        p1 == IF pressed(G, "Up", t) /\ canJump
              THEN [pl EXCEPT !.Vel.Y = -85 * Cell, !.OnGround = FALSE, !.OnPlatform = FALSE]
              ELSE pl
        vy == IF ~p1.OnGround THEN p1.Vel.Y + MulDiv(gravity, d, 1000) ELSE p1.Vel.Y
    IN  [p1 EXCEPT !.Vel.Y = vy, !.Pos.Y = Advance(@, vy, d)]

\* a faulty landing that takes a falling player for grounded up to 10 cells
\* above the ground; C20 must tell it from landPlayer
landPlayerEarly(pl, G, t) ==
    LET k == landingPlatform(pl, PlayerWidth, PlayerHeight, G.platforms)
        groundY == (G.groundY - PlayerHeight) * Cell
    IN  IF k # 0
        THEN [pl EXCEPT !.Pos.Y = G.platforms[k].Y - PlayerHeight * Cell, !.Vel.Y = 0,
                        !.OnGround = FALSE, !.OnPlatform = TRUE, !.LastOnGroundTime = t]
        ELSE IF pl.Pos.Y >= groundY - 10 * Cell /\ pl.Vel.Y > 0
        THEN [pl EXCEPT !.Pos.Y = groundY, !.Vel.Y = 0, !.OnGround = TRUE,
                        !.OnPlatform = FALSE, !.LastOnGroundTime = t]
        ELSE IF pl.Pos.Y >= groundY
        THEN [pl EXCEPT !.Pos.Y = groundY]
        ELSE [pl EXCEPT !.LastOnGroundTime = IF pl.OnGround \/ pl.OnPlatform THEN t ELSE @,
                        !.OnGround = FALSE, !.OnPlatform = FALSE]

\* lines 552-594: platforms first, the ground only when no platform was landed on
landPlayer(pl, G, t) ==
    LET k == landingPlatform(pl, PlayerWidth, PlayerHeight, G.platforms)
        groundY == (G.groundY - PlayerHeight) * Cell
    IN  IF k # 0
        THEN [pl EXCEPT !.Pos.Y = G.platforms[k].Y - PlayerHeight * Cell, !.Vel.Y = 0,
                        !.OnGround = FALSE, !.OnPlatform = TRUE, !.LastOnGroundTime = t]
        ELSE IF pl.Pos.Y >= groundY
        THEN IF pl.Vel.Y > 0
             THEN [pl EXCEPT !.Pos.Y = groundY, !.Vel.Y = 0, !.OnGround = TRUE,
                             !.OnPlatform = FALSE, !.LastOnGroundTime = t]
             ELSE [pl EXCEPT !.Pos.Y = groundY]
        ELSE [pl EXCEPT !.LastOnGroundTime = IF pl.OnGround \/ pl.OnPlatform THEN t ELSE @,
                        !.OnGround = FALSE, !.OnPlatform = FALSE]

\* a faulty clamp that forgets the right edge; C19 must tell it from
\* clampPlayer
clampPlayerLeftOnly(pl, G) == IF pl.Pos.X < 0 THEN [pl EXCEPT !.Pos.X = 0] ELSE pl

\* lines 596-602
clampPlayer(pl, G) ==
    LET a == IF pl.Pos.X < 0 THEN [pl EXCEPT !.Pos.X = 0] ELSE pl
    IN  IF a.Pos.X + PlayerWidth * Cell > G.width * Cell
        THEN [a EXCEPT !.Pos.X = (G.width - PlayerWidth) * Cell]
        ELSE a

updatePlayer(G, t, d) ==
    [G EXCEPT !.player = clampPlayer(landPlayer(jumpPlayer(walkPlayer(@, G, t, d), G, t, d), G, t), G)]

----------------------------------------------------------------------------
(* updateProjectiles *)

playerProjectileSpeed == 200 * Cell
enemyProjectileSpeed == 80 * Cell

\* lines 620-634: one projectile moved, and switched off outside the viewport
moveProjectile(p, G, d) ==
    LET speed == IF p.IsEnemy THEN enemyProjectileSpeed ELSE playerProjectileSpeed
        x == p.Pos.X + p.Dir * MulDiv(speed, d, 1000)
    IN  [p EXCEPT !.PrevPos = p.Pos, !.Pos.X = x,
                  !.Active = ~(x < 0 \/ x > G.width * Cell)]

\* lines 615-635: the projectiles after the loop, before the clean-up
movedProjectiles(G, d) ==
    [i \in 1..Len(G.projectiles) |->
        IF G.projectiles[i].Active THEN moveProjectile(G.projectiles[i], G, d)
        ELSE G.projectiles[i]]

\* a faulty update that lets the projectiles fly on when the round is over;
\* C12 must tell it from updateProjectiles
updateProjectilesAlways(G, d) == [G EXCEPT !.projectiles = Active(movedProjectiles(G, d))]

updateProjectiles(G, d) ==
    IF G.gameOver THEN [G EXCEPT !.projectiles = <<>>]
    ELSE [G EXCEPT !.projectiles = Active(movedProjectiles(G, d))]

----------------------------------------------------------------------------
(* checkCollisions *)

\* the bounding box test of lines 2018-2021, 2041-2044, 2079-2082
overlaps(ax, ay, aw, ah, bx, by, bw, bh) ==
    ax < bx + bw /\ ax + aw > bx /\ ay < by + bh /\ ay + ah > by

playerHitsEnemy(G, e) ==
    overlaps(G.player.Pos.X, G.player.Pos.Y, PlayerWidth * Cell, PlayerHeight * Cell,
             e.Pos.X, e.Pos.Y, EnemyWidth * Cell, EnemyHeight * Cell)

projectileAt(x, y, e) ==
    overlaps(x, y, Cell, Cell, e.Pos.X, e.Pos.Y, EnemyWidth * Cell, EnemyHeight * Cell)

\* lines 2063-2113: the current position, the previous one, then 4 points between
sweptHit(p, e) ==
    \/ projectileAt(p.Pos.X, p.Pos.Y, e)
    \/ projectileAt(p.PrevPos.X, p.PrevPos.Y, e)
    \/ \E k \in 1..4 :
          projectileAt(p.PrevPos.X + MulDiv(p.Pos.X - p.PrevPos.X, k, 5),
                       p.PrevPos.Y + MulDiv(p.Pos.Y - p.PrevPos.Y, k, 5), e)

\* a faulty choice that goes on after the first opponent hit; C10 must tell
\* it from struck
struckAll(hits) == hits

\* line 2122: the inner loop ends at the first opponent hit
struck(hits) == IF hits = {} THEN {} ELSE {CHOOSE j \in hits : \A k \in hits : j <= k}

\* a faulty kill that scores nothing; C9 must tell it from kill
killUnscored(G, i, j, r, c, t) ==
    LET G1 == createDeathParticles([G EXCEPT !.projectiles[i].Active = FALSE],
                                   G.enemies[j], r, c, t)
    IN  [G1 EXCEPT !.enemies[j].Active = FALSE,
                   !.enemiesDefeated = @ + 1]

\* lines 2115-2121: the effects of one kill
kill(G, i, j, r, c, t) ==
    LET G1 == createDeathParticles([G EXCEPT !.projectiles[i].Active = FALSE],
                                   G.enemies[j], r, c, t)
    IN  [G1 EXCEPT !.enemies[j].Active = FALSE,
                   !.score = @ + 10,
                   !.enemiesDefeated = @ + 1]

RECURSIVE killEach(_, _, _, _, _, _)
killEach(G, i, js, r, c, t) ==
    IF js = {} THEN G
    ELSE LET j == CHOOSE x \in js : \A y \in js : x <= y
         IN  killEach(kill(G, i, j, r, c, t), i, js \ {j}, r, c, t)

\* lines 2053-2125: every active player projectile against the active opponents
RECURSIVE projectileLoop(_, _, _, _, _)
projectileLoop(G, i, r, c, t) ==
    IF i > Len(G.projectiles) THEN G
    ELSE IF ~G.projectiles[i].Active \/ G.projectiles[i].IsEnemy
    THEN projectileLoop(G, i + 1, r, c, t)
    ELSE LET hits == {j \in 1..Len(G.enemies) :
                         G.enemies[j].Active /\ sweptHit(G.projectiles[i], G.enemies[j])}
         IN  projectileLoop(killEach(G, i, struck(hits), r, c, t), i + 1, r, c, t)

\* a faulty test that overlooks the projectiles of the opponents; C11 must
\* tell it from playerDefeated
playerDefeatedByTouch(G) ==
    \E i \in 1..Len(G.enemies) : G.enemies[i].Active /\ playerHitsEnemy(G, G.enemies[i])

\* lines 2012-2050: the player touches an opponent or an opponent's projectile
playerDefeated(G) ==
    \/ \E i \in 1..Len(G.enemies) : G.enemies[i].Active /\ playerHitsEnemy(G, G.enemies[i])
    \/ \E i \in 1..Len(G.projectiles) :
          /\ G.projectiles[i].Active
          /\ G.projectiles[i].IsEnemy
          /\ overlaps(G.projectiles[i].Pos.X, G.projectiles[i].Pos.Y, Cell, Cell,
                      G.player.Pos.X, G.player.Pos.Y, PlayerWidth * Cell, PlayerHeight * Cell)

\* a faulty check that goes on to the projectiles after the defeat of the
\* player; C34 must tell it from checkCollisions
checkCollisionsThenKills(G, r, c, t) ==
    IF playerDefeated(G)
    THEN projectileLoop([createPlayerDeathParticles(G, r, t) EXCEPT !.gameOver = TRUE],
                        1, r, c, t)
    ELSE projectileLoop(G, 1, r, c, t)

checkCollisions(G, r, c, t) ==
    IF playerDefeated(G)
    THEN [createPlayerDeathParticles(G, r, t) EXCEPT !.gameOver = TRUE]
    ELSE projectileLoop(G, 1, r, c, t)

----------------------------------------------------------------------------
(* updateEnemies *)

baseSpeed == 20 * Cell
jumpSpeed == -85 * Cell
minDistance == 30 * Cell

\* the delays time.Duration(1.0+rand.Float64()*2.0)*time.Second can take: the
\* conversion truncates the float to a whole number of seconds
ShotDelays == {1000, 2000}
SpawnDraws == {"none", "left", "right"}

\* lines 661-710: the walk of one opponent
\* a faulty walk in which a ranged opponent has no band to rest in; C25 must
\* tell it from walkEnemy
walkEnemyNoBand(e, G, d) ==
    LET step == MulDiv(baseSpeed, d, 1000)
        right == [e EXCEPT !.Facing = 1, !.Pos.X = @ + step]
        left == [e EXCEPT !.Facing = -1, !.Pos.X = @ - step]
        dx == G.player.Pos.X - e.Pos.X
    IN  IF G.gameOver
        THEN IF e.Pos.X - (G.width * Cell) \div 2 > 0 THEN right ELSE left
        ELSE IF e.CanShoot
        THEN IF Abs(dx) < minDistance THEN (IF dx > 0 THEN left ELSE right)
             ELSE IF dx > 0 THEN right ELSE left
        ELSE IF dx > 0 THEN right ELSE left

\* a faulty walk that goes on towards the player when the round is over; C37
\* must tell it from walkEnemy
walkEnemyStillHunting(e, G, d) ==
    LET step == MulDiv(baseSpeed, d, 1000)
        right == [e EXCEPT !.Facing = 1, !.Pos.X = @ + step]
        left == [e EXCEPT !.Facing = -1, !.Pos.X = @ - step]
        dx == G.player.Pos.X - e.Pos.X
    IN  IF e.CanShoot
        THEN IF Abs(dx) < minDistance THEN (IF dx > 0 THEN left ELSE right)
             ELSE IF Abs(dx) > minDistance + 10 * Cell THEN (IF dx > 0 THEN right ELSE left)
             ELSE e
        ELSE IF dx > 0 THEN right ELSE left

walkEnemy(e, G, d) ==
    LET step == MulDiv(baseSpeed, d, 1000)
        right == [e EXCEPT !.Facing = 1, !.Pos.X = @ + step]
        left == [e EXCEPT !.Facing = -1, !.Pos.X = @ - step]
        dx == G.player.Pos.X - e.Pos.X
    IN  IF G.gameOver
        THEN IF e.Pos.X - (G.width * Cell) \div 2 > 0 THEN right ELSE left
        ELSE IF e.CanShoot
        THEN IF Abs(dx) < minDistance THEN (IF dx > 0 THEN left ELSE right)
             ELSE IF Abs(dx) > minDistance + 10 * Cell THEN (IF dx > 0 THEN right ELSE left)
             ELSE e
        ELSE IF dx > 0 THEN right ELSE left

\* a faulty test that lets an opponent fire on the tick that arms it; C18
\* must tell it from enemyFires
enemyFiresAtOnce(e, G, t) ==
    ~G.gameOver /\ e.CanShoot /\ t - e.LastShot >= e.NextShotDelay

\* lines 713-734: the first call arms the timer, later calls fire when it is due
enemyFires(e, G, t) ==
    ~G.gameOver /\ e.CanShoot /\ e.LastShot # 0 /\ t - e.LastShot >= e.NextShotDelay

shootEnemy(e, G, delay, t) ==
    IF ~G.gameOver /\ e.CanShoot /\ (e.LastShot = 0 \/ enemyFires(e, G, t))
    THEN [e EXCEPT !.LastShot = t, !.NextShotDelay = delay]
    ELSE e

enemyProjectile(e) ==
    LET at == Vec(e.Pos.X + (EnemyWidth \div 2) * Cell, e.Pos.Y + (EnemyHeight \div 2) * Cell)
    IN  [Pos |-> at, PrevPos |-> at, Dir |-> e.Facing, Active |-> TRUE, IsEnemy |-> TRUE]

\* lines 736-759: jump towards a higher player or a platform within reach
jumpEnemy(e, G, t) ==
    LET ready == e.OnGround /\ t - e.JumpCooldown > 1000
        playerAbove == G.player.Pos.Y - e.Pos.Y < -10 * Cell
        platformAbove ==
            \E i \in 1..Len(G.platforms) :
                /\ G.platforms[i].Y - EnemyHeight * Cell < e.Pos.Y - 5 * Cell
                /\ Abs(e.Pos.X - (G.platforms[i].X + G.platforms[i].Width \div 2)) < 30 * Cell
    IN  IF ~G.gameOver /\ ready /\ (playerAbove \/ platformAbove)
        THEN [e EXCEPT !.Vel.Y = jumpSpeed, !.OnGround = FALSE, !.JumpCooldown = t]
        ELSE e

\* lines 762-768
fallEnemy(e, d) ==
    LET vy == IF ~e.OnGround THEN e.Vel.Y + MulDiv(gravity, d, 1000) ELSE e.Vel.Y
    IN  [e EXCEPT !.Vel.Y = vy, !.Pos.Y = Advance(@, vy, d)]

\* lines 770-802: platforms first, the ground only when no platform was landed on
landEnemy(e, G) ==
    LET k == landingPlatform(e, EnemyWidth, EnemyHeight, G.platforms)
        groundY == (G.groundY - EnemyHeight) * Cell
    IN  IF k # 0
        THEN [e EXCEPT !.Pos.Y = G.platforms[k].Y - EnemyHeight * Cell, !.Vel.Y = 0,
                       !.OnGround = TRUE]
        ELSE IF e.Pos.Y >= groundY
        THEN IF e.Vel.Y > 0
             THEN [e EXCEPT !.Pos.Y = groundY, !.Vel.Y = 0, !.OnGround = TRUE]
             ELSE [e EXCEPT !.Pos.Y = groundY]
        ELSE [e EXCEPT !.OnGround = FALSE]

\* lines 804-807
\* a faulty pruning that keeps an opponent for another EnemyWidth columns
\* outside the viewport; C26 must tell it from leaveEnemy
leaveEnemyLate(e, G) ==
    [e EXCEPT !.Active = ~(e.Pos.X < -2 * EnemyWidth * Cell
                           \/ e.Pos.X > (G.width + EnemyWidth) * Cell)]

leaveEnemy(e, G) ==
    [e EXCEPT !.Active = ~(e.Pos.X < -EnemyWidth * Cell \/ e.Pos.X > G.width * Cell)]

stepEnemy(e, G, delay, t, d) ==
    LET walked == walkEnemy(e, G, d)
    IN  leaveEnemy(landEnemy(fallEnemy(jumpEnemy(shootEnemy(walked, G, delay, t), G, t), d), G), G)

\* the projectiles the loop appends, in the order of the opponents
enemyShots(G, delay, t, d) ==
    LET shot(i) == IF G.enemies[i].Active /\ enemyFires(walkEnemy(G.enemies[i], G, d), G, t)
                   THEN << enemyProjectile(walkEnemy(G.enemies[i], G, d)) >>
                   ELSE <<>>
    IN  Concat([i \in 1..Len(G.enemies) |-> shot(i)])

\* lines 832-872
newEnemy(G, side) ==
    [Pos |-> Vec(IF side = "left" THEN -EnemyWidth * Cell ELSE G.width * Cell,
                 (G.groundY - EnemyHeight) * Cell),
     Vel |-> Vec(0, 0), Facing |-> IF side = "left" THEN 1 ELSE -1, Active |-> TRUE,
     CanShoot |-> G.enemySpawnCounter % 2 = 1, LastShot |-> 0, NextShotDelay |-> 0,
     OnGround |-> TRUE, JumpCooldown |-> 0]

spawnEnemy(G, side) ==
    IF G.gameOver \/ side = "none" THEN G
    ELSE [G EXCEPT !.enemySpawnCounter = @ + 1, !.enemies = Append(@, newEnemy(G, side))]

updateEnemies(G, delay, side, t, d) ==
    LET stepped == [i \in 1..Len(G.enemies) |->
                       IF G.enemies[i].Active THEN stepEnemy(G.enemies[i], G, delay, t, d)
                       ELSE G.enemies[i]]
    IN  spawnEnemy([G EXCEPT !.enemies = Active(stepped),
                             !.projectiles = @ \o enemyShots(G, delay, t, d)], side)

----------------------------------------------------------------------------
(* handleInput and the event branch of run *)

Keys == {"Left", "Right", "Up"}
Sizes == { <<60, 20>>, <<50, 16>>, <<32, 16>> }
Events == Keys \cup {"Space", "Enter", "Escape", "Resize"}

\* lines 146-177 and 2200-2216: the platforms of a round
newPlatforms(width, groundY) ==
    LET spacing == (width * Cell) \div 4
        platform(i, above, wide) ==
            [X |-> spacing * i - (wide * Cell) \div 2, Y |-> (groundY - above - 1) * Cell,
             Width |-> wide * Cell, Height |-> Cell]
    IN  << platform(1, 4, 12), platform(2, 8, 12), platform(3, 10, 14) >>

newPlayer(width, groundY, t) ==
    [Pos |-> Vec((width \div 2) * Cell, (groundY - PlayerHeight) * Cell), Vel |-> Vec(0, 0),
     Facing |-> 1, MoveDir |-> 0, OnGround |-> TRUE, OnPlatform |-> FALSE,
     LastOnGroundTime |-> t]

\* a faulty restart that goes back to the menu with the round still marked
\* over; C33 must tell it from restart
restartStillOver(G, t) ==
    [G EXCEPT !.platforms = newPlatforms(G.width, G.groundY),
              !.player = newPlayer(G.width, G.groundY, t),
              !.projectiles = <<>>, !.enemies = <<>>,
              !.deathParticles = <<>>, !.bloodParticles = <<>>,
              !.redGroundTiles = {}, !.redPlatformTiles = {},
              !.score = 0, !.enemiesDefeated = 0, !.enemySpawnCounter = 0,
              !.inMenu = TRUE,
              !.keys = [k \in Keys |-> 0]]

\* lines 2196-2240: Enter after a defeat goes back to the menu
restart(G, t) ==
    [G EXCEPT !.platforms = newPlatforms(G.width, G.groundY),
              !.player = newPlayer(G.width, G.groundY, t),
              !.projectiles = <<>>, !.enemies = <<>>,
              !.deathParticles = <<>>, !.bloodParticles = <<>>,
              !.redGroundTiles = {}, !.redPlatformTiles = {},
              !.score = 0, !.enemiesDefeated = 0, !.enemySpawnCounter = 0,
              !.gameOver = FALSE, !.inMenu = TRUE,
              !.keys = [k \in Keys |-> 0]]

\* lines 2261-2278: Space fires unless the last shot is less than 200 ms old
fire(G, t) ==
    LET at == Vec(G.player.Pos.X + (PlayerWidth \div 2) * Cell,
                  G.player.Pos.Y + (PlayerHeight \div 2) * Cell)
    IN  IF t - G.lastShot > 200
        THEN [G EXCEPT !.lastShot = t,
                       !.projectiles = Append(@, [Pos |-> at, PrevPos |-> at,
                                                  Dir |-> G.player.Facing, Active |-> TRUE,
                                                  IsEnemy |-> FALSE])]
        ELSE G

\* lines 2133-2186: Space in the menu starts a round
start(G, t) ==
    [G EXCEPT !.platforms = newPlatforms(G.width, G.groundY),
              !.player = newPlayer(G.width, G.groundY, t),
              !.projectiles = <<>>, !.enemies = <<>>,
              !.deathParticles = <<>>, !.bloodParticles = <<>>,
              !.redGroundTiles = {}, !.redPlatformTiles = {},
              !.score = 0, !.enemiesDefeated = 0, !.enemySpawnCounter = 0,
              !.gameOver = FALSE, !.inMenu = FALSE, !.nextEnemyID = 1,
              !.lastShot = 0, !.keys = [k \in Keys |-> 0]]

\* a faulty handler that tracks keys and fires when the round is over too;
\* C13 must tell it from handleInput
handleInputWhileOver(G, ev, t) ==
    IF G.inMenu THEN (IF ev = "Space" THEN start(G, t) ELSE G)
    ELSE IF G.gameOver /\ ev = "Enter" THEN restart(G, t)
    ELSE IF ev \in Keys THEN [G EXCEPT !.keys[ev] = t]
    ELSE IF ev = "Space" THEN fire(G, t)
    ELSE G

handleInput(G, ev, t) ==
    IF G.inMenu THEN (IF ev = "Space" THEN start(G, t) ELSE G)
    ELSE IF G.gameOver THEN (IF ev = "Enter" THEN restart(G, t) ELSE G)
    ELSE IF ev \in Keys THEN [G EXCEPT !.keys[ev] = t]
    ELSE IF ev = "Space" THEN fire(G, t)
    ELSE G

\* lines 2552-2560: tcell.EventResize
resize(G, size) ==
    LET groundY == size[2] - 1
    IN  [G EXCEPT !.width = size[1], !.height = size[2], !.groundY = groundY,
                  !.player.Pos.X = IF @ + PlayerWidth * Cell > size[1] * Cell
                                   THEN (size[1] - PlayerWidth) * Cell ELSE @,
                  !.player.Pos.Y = (groundY - PlayerHeight) * Cell]

receive(G, ev, size, t) ==
    IF ev = "Resize" THEN resize(G, size)
    ELSE IF ev = "none" THEN G
    ELSE handleInput(G, ev, t)

----------------------------------------------------------------------------
(* updateMenu: the demonstration that plays behind the menu *)

\* line 2316: 1500+rand.Intn(1500) milliseconds
MenuSpawnDelays == {1500, 2999}
MenuSides == {"left", "right"}

\* lines 2288-2292
placeMenuPlayer(G) ==
    IF G.player.Pos.X = 0 /\ G.player.Pos.Y = 0
    THEN [G EXCEPT !.player.Pos = Vec((G.width \div 2) * Cell,
                                      (G.groundY - PlayerHeight) * Cell),
                   !.player.Facing = 1]
    ELSE G

\* line 2295
menuFires(G, t) == t - G.menuLastShot > 800

\* lines 2295-2313: the player of the menu fires to a random side
menuFire(G, dir, t) ==
    LET at == Vec(G.player.Pos.X + (PlayerWidth \div 2) * Cell,
                  G.player.Pos.Y + (PlayerHeight \div 2) * Cell)
    IN  IF menuFires(G, t)
        THEN [G EXCEPT !.player.Facing = dir,
                       !.projectiles = Append(@, [Pos |-> at, PrevPos |-> at, Dir |-> dir,
                                                  Active |-> TRUE, IsEnemy |-> FALSE]),
                       !.menuLastShot = t]
        ELSE G

\* line 2316
menuSpawns(G, delay, t) == t - G.menuLastEnemySpawn > delay

\* lines 2317-2350: the opponents of the menu do not shoot
menuEnemy(G, side) ==
    [Pos |-> Vec(IF side = "left" THEN -EnemyWidth * Cell ELSE G.width * Cell,
                 (G.groundY - EnemyHeight) * Cell),
     Vel |-> Vec(0, 0), Facing |-> IF side = "left" THEN 1 ELSE -1, Active |-> TRUE,
     CanShoot |-> FALSE, LastShot |-> 0, NextShotDelay |-> 0,
     OnGround |-> TRUE, JumpCooldown |-> 0]

menuSpawn(G, delay, side, t) ==
    IF menuSpawns(G, delay, t)
    THEN [G EXCEPT !.enemies = Append(@, menuEnemy(G, side)), !.menuLastEnemySpawn = t]
    ELSE G

\* lines 2362-2378: towards the centre, gone when it is there or off the screen
menuWalk(e, G, d) ==
    LET centerX == (G.width \div 2) * Cell
        step == MulDiv(baseSpeed, d, 1000)
        m == IF centerX - e.Pos.X > 0
             THEN [e EXCEPT !.Facing = 1, !.Pos.X = @ + step]
             ELSE [e EXCEPT !.Facing = -1, !.Pos.X = @ - step]
    IN  IF \/ m.Pos.X < -EnemyWidth * Cell
           \/ m.Pos.X > G.width * Cell
           \/ Abs(m.Pos.X - centerX) < 5 * Cell
        THEN [m EXCEPT !.Active = FALSE]
        ELSE m

\* lines 2357-2388
menuEnemies(G, d) ==
    [G EXCEPT !.enemies = Active([i \in 1..Len(G.enemies) |->
                                     IF G.enemies[i].Active THEN menuWalk(G.enemies[i], G, d)
                                     ELSE G.enemies[i]])]

\* lines 2404-2412: the opponents the projectile lies on, no sweep
menuHits(G, i) ==
    {j \in 1..Len(G.enemies) :
        /\ G.enemies[j].Active
        /\ projectileAt(G.projectiles[i].Pos.X, G.projectiles[i].Pos.Y, G.enemies[j])}

\* lines 2413-2417: debris, but neither score nor kill counter
\* a faulty demo in which a kill counts as in a round; C32 must tell it from
\* menuKill
menuKillScored(G, i, j, r, c, t) ==
    [createDeathParticles(G, G.enemies[j], r, c, t) EXCEPT !.enemies[j].Active = FALSE,
                                                          !.projectiles[i].Active = FALSE,
                                                          !.enemiesDefeated = @ + 1]

menuKill(G, i, j, r, c, t) ==
    [createDeathParticles(G, G.enemies[j], r, c, t) EXCEPT !.enemies[j].Active = FALSE,
                                                          !.projectiles[i].Active = FALSE]

\* lines 2394-2420
RECURSIVE menuLoop(_, _, _, _, _)
menuLoop(G, i, r, c, t) ==
    IF i > Len(G.projectiles) THEN G
    ELSE IF ~G.projectiles[i].Active \/ G.projectiles[i].IsEnemy \/ menuHits(G, i) = {}
    THEN menuLoop(G, i + 1, r, c, t)
    ELSE menuLoop(menuKill(G, i, CHOOSE j \in menuHits(G, i) :
                                     \A k \in menuHits(G, i) : j <= k, r, c, t),
                  i + 1, r, c, t)

\* lines 2288-2391: the menu up to and with its call of updateProjectiles
menuMoved(G, dir, delay, side, t, d) ==
    updateProjectiles(
        menuEnemies(menuSpawn(menuFire(placeMenuPlayer(G), dir, t), delay, side, t), d), d)

\* lines 2283-2420; the three calls of lines 2423-2425 are the steps that follow
updateMenu(G, dir, delay, side, r, c, t, d) ==
    menuLoop(menuMoved(G, dir, delay, side, t, d), 1, r, c, t)

----------------------------------------------------------------------------
(* The run loop: one frame is Poll, then the calls of update in order *)

StartTime == 10000

\* the number of the frames run so far
frame == (now - StartTime) \div dt

\* line 2535: deltaTime is capped at 0.1 s
deltaTime == Min(dt, 100)

\* the draws a call makes matter only when it makes them
drawsIf(used, S) == IF used THEN S ELSE {CHOOSE x \in S : TRUE}

\* the event the step handles: the head of the queue when a frame starts
polled == IF pc = "frame" /\ inputChan # <<>> THEN Head(inputChan) ELSE "none"

\* the step handles Space in the menu or Enter in a round that is over
resets ==
    /\ pc = "frame"
    /\ \/ g.inMenu /\ polled = "Space"
       \/ ~g.inMenu /\ g.gameOver /\ polled = "Enter"

\* the entries of both stain maps: the map, the key, the id of the source
stains(G) ==
    {<<"ground", kv[1], kv[2]>> : kv \in G.redGroundTiles}
    \cup {<<"platform", kv[1], kv[2]>> : kv \in G.redPlatformTiles}

\* the history of the stains: a reset empties it, a source without an active
\* fragment or blood particle leaves it
track ==
    stainedBy' = IF resets THEN {}
                 ELSE {h \in stainedBy \cup stains(g') : h[3] \in activeEnemyIDs(g')}

\* line 2521: make(chan tcell.Event, 10)
inputChanSize == 10

\* a faulty send that puts the newest event first; C16 must tell it from
\* sendOn
sendOnNewestFirst(q, ev) == <<ev>> \o q

\* line 2525: inputChan <- ev
sendOn(q, ev) == Append(q, ev)

\* lines 2522-2527: the goroutine passes the next event on, blocked while the
\* channel is full
Send ==
    /\ pending # <<>>
    /\ pc # "exit"
    /\ frame < SendTicks
    /\ Len(inputChan) < inputChanSize
    /\ inputChan' = sendOn(inputChan, Head(pending))
    /\ pending' = Tail(pending)
    /\ UNCHANGED <<g, now, dt, pc, swept, handled, stainedBy>>

\* lines 2530-2566 and 2429-2439: time, at most one event, then update starts
Poll ==
    /\ pc = "frame"
    /\ frame < (IF g.inMenu THEN MenuTicks ELSE MaxTicks)
    /\ now' = now + dt
    /\ LET ev == IF inputChan = <<>> THEN "none" ELSE Head(inputChan)
       IN  /\ \E size \in drawsIf(ev = "Resize", Sizes) : g' = receive(g, ev, size, now')
           /\ inputChan' = IF inputChan = <<>> THEN <<>> ELSE Tail(inputChan)
           /\ pc' = IF ev = "Escape" THEN "exit"
                    ELSE IF g'.inMenu THEN "menu"
                    ELSE IF g'.gameOver THEN "projectiles"
                    ELSE "player"
    /\ handled' = IF inputChan = <<>> THEN handled ELSE Append(handled, Head(inputChan))
    /\ track
    /\ UNCHANGED <<dt, swept, pending>>

\* the menu creates debris: a projectile of the demonstration lies on an opponent
menuDebrisDue(G) ==
    \E i \in 1..Len(G.projectiles) :
        G.projectiles[i].Active /\ ~G.projectiles[i].IsEnemy /\ menuHits(G, i) # {}

\* lines 2430-2433: in the menu update is updateMenu
UpdateMenu ==
    /\ pc = "menu"
    /\ \E dir \in drawsIf(menuFires(g, now), {-1, 1}) :
          \E delay \in MenuSpawnDelays :
              \E side \in drawsIf(menuSpawns(g, delay, now), MenuSides) :
                  \E r \in drawsIf(menuDebrisDue(menuMoved(g, dir, delay, side, now, deltaTime)),
                                   BurstDraws) :
                      \E c \in drawsIf(menuDebrisDue(menuMoved(g, dir, delay, side, now,
                                                               deltaTime)) /\ r.decap,
                                       CorpseDraws) :
                          g' = updateMenu(g, dir, delay, side, r, c, now, deltaTime)
    /\ pc' = "corpses"
    /\ track
    /\ UNCHANGED <<now, dt, swept, inputChan, pending, handled>>

UpdatePlayer ==
    /\ pc = "player"
    /\ g' = updatePlayer(g, now, deltaTime)
    /\ pc' = "collisions"
    /\ track
    /\ UNCHANGED <<now, dt, swept, inputChan, pending, handled>>

\* checkCollisions creates debris: the player is defeated or an opponent is hit
debrisDue(G) ==
    \/ playerDefeated(G)
    \/ \E i \in 1..Len(G.projectiles), j \in 1..Len(G.enemies) :
          /\ G.projectiles[i].Active /\ ~G.projectiles[i].IsEnemy
          /\ G.enemies[j].Active /\ sweptHit(G.projectiles[i], G.enemies[j])

CheckCollisions ==
    /\ pc = "collisions"
    /\ \E r \in drawsIf(debrisDue(g), BurstDraws) :
          \E c \in drawsIf(debrisDue(g) /\ r.decap, CorpseDraws) :
              g' = checkCollisions(g, r, c, now)
    /\ pc' = "projectiles"
    /\ track
    /\ UNCHANGED <<now, dt, swept, inputChan, pending, handled>>

UpdateProjectiles ==
    /\ pc = "projectiles"
    /\ g' = updateProjectiles(g, deltaTime)
    /\ swept' = IF g.gameOver THEN <<>> ELSE movedProjectiles(g, deltaTime)
    /\ pc' = "enemies"
    /\ track
    /\ UNCHANGED <<now, dt, inputChan, pending, handled>>

UpdateEnemies ==
    /\ pc = "enemies"
    /\ \E delay \in drawsIf(\E i \in 1..Len(g.enemies) :
                                  /\ g.enemies[i].Active /\ g.enemies[i].CanShoot /\ ~g.gameOver
                                  /\ \/ g.enemies[i].LastShot = 0
                                     \/ enemyFires(g.enemies[i], g, now),
                              ShotDelays) :
          \E side \in (IF g.enemySpawnCounter < MaxSpawns /\ frame <= SpawnFrames
                        THEN SpawnDraws ELSE {"none"}) :
              g' = updateEnemies(g, delay, side, now, deltaTime)
    /\ pc' = "corpses"
    /\ track
    /\ UNCHANGED <<now, dt, swept, inputChan, pending, handled>>

\* updateCorpses is the first statement of updateDeathParticles (line 1480)
UpdateCorpses ==
    /\ pc = "corpses"
    /\ \E r \in drawsIf(\E i \in 1..Len(g.corpses) :
                            g.corpses[i].Active /\ corpseExpired(g.corpses[i], now),
                        BurstDraws) :
          \E c \in drawsIf(\E i \in 1..Len(g.corpses) :
                               g.corpses[i].Active /\ corpseTurns(g.corpses[i], now),
                           CorpseDraws) :
              \E flip \in drawsIf(\E i \in 1..Len(g.corpses) :
                                      g.corpses[i].Active /\ corpseTurns(g.corpses[i], now),
                                  BOOLEAN) :
                  g' = updateCorpses(g, r, c, flip, now, deltaTime)
    /\ pc' = "debris"
    /\ track
    /\ UNCHANGED <<now, dt, swept, inputChan, pending, handled>>

UpdateDeathParticles ==
    /\ pc = "debris"
    /\ g' = updateDeathParticles(g, now, deltaTime)
    /\ pc' = "blood"
    /\ track
    /\ UNCHANGED <<now, dt, swept, inputChan, pending, handled>>

UpdateBloodParticles ==
    /\ pc = "blood"
    /\ g' = updateBloodParticles(g, deltaTime)
    /\ pc' = "sweep"
    /\ track
    /\ UNCHANGED <<now, dt, swept, inputChan, pending, handled>>

CheckAndClearRedTiles ==
    /\ pc = "sweep"
    /\ g' = checkAndClearRedTiles(g)
    /\ pc' = "frame"
    /\ track
    /\ UNCHANGED <<now, dt, swept, inputChan, pending, handled>>

Next ==
    \/ Send
    \/ Poll
    \/ UpdateMenu
    \/ UpdatePlayer
    \/ CheckCollisions
    \/ UpdateProjectiles
    \/ UpdateEnemies
    \/ UpdateCorpses
    \/ UpdateDeathParticles
    \/ UpdateBloodParticles
    \/ CheckAndClearRedTiles

----------------------------------------------------------------------------------------------------------------------------------------
(* Initial states: a round in progress at a frame boundary.  The player     *)
(* stands where start puts it, the opponents spawned so far have walked     *)
(* in from the edges of the 60 x 20 viewport, and the keys typed so far     *)
(* wait in inputChan.                                                       *)

\* an opponent on the ground, facing the player, its last jump 600 ms ago
standing(x, canShoot) ==
    [Pos |-> Vec(x * Cell, 16 * Cell), Vel |-> Vec(0, 0),
     Facing |-> IF x < 30 THEN 1 ELSE -1,
     Active |-> TRUE, CanShoot |-> canShoot, LastShot |-> 0, NextShotDelay |-> 0,
     OnGround |-> TRUE, JumpCooldown |-> StartTime - 600]

walker(x) == standing(x, FALSE)
shooter(x) == standing(x, TRUE)

\* the projectile the player fired in the frame before, after its first move
flying(d) ==
    [Pos |-> Vec(32 * Cell + MulDiv(playerProjectileSpeed, Min(d, 100), 1000), 17 * Cell),
     PrevPos |-> Vec(32 * Cell, 17 * Cell), Dir |-> 1, Active |-> TRUE, IsEnemy |-> FALSE]

\* the projectile the opponent at 56 fired 200 ms before, on its way to the
\* player
incoming ==
    [Pos |-> Vec(42 * Cell, 17 * Cell), PrevPos |-> Vec(46 * Cell, 17 * Cell),
     Dir |-> -1, Active |-> TRUE, IsEnemy |-> TRUE]

\* the opponents alive, the spawns and kills before, the shots in the air,
\* the keys typed, the frame time
situation(enemies, spawned, kills, shots, typed, frameTime) ==
    [enemies |-> enemies, spawned |-> spawned, kills |-> kills,
     projectiles |-> [i \in 1..shots |-> flying(frameTime)], typed |-> typed,
     dt |-> frameTime, debris |-> <<>>, corpses |-> <<>>, menu |-> FALSE,
     nextEnemyID |-> 1 + kills, script |-> <<>>]

\* a fragment of opponent 1, hit at the right end of the highest platform:
\* the piece beside the platform, launched downwards at 5 cells per second
falling ==
    newParticle(Vec(53 * Cell, 6 * Cell), Vec(0, 5 * Cell), 1, FALSE, FALSE,
                [dist |-> 0, speed |-> 0], TRUE, StartTime)

\* the headless body of opponent 2, decapitated 1500 ms before, walking about
\* the ground for another 700 ms
wandering ==
    [Pos |-> Vec(12 * Cell, 16 * Cell), Vel |-> Vec(0, 0), Facing |-> 1, OnGround |-> TRUE,
     Active |-> TRUE, EnemyID |-> 2, EndTime |-> StartTime + 700,
     MoveDir |-> 1, LastDirChange |-> StartTime, DirDuration |-> 799,
     LastBloodEmit |-> StartTime, WasOnPlatform |-> FALSE]

\* the keys of a player who goes left and right in turns
script == [i \in 1..ScriptLen |-> IF i % 2 = 1 THEN "Left" ELSE "Right"]

Situations ==
    { situation(<<>>, 0, 0, 0, typed, 50) :
          typed \in { <<>>, <<"Up">>, <<"Right", "Up">>, <<"Left", "Space">>,
                      <<"Resize">>, <<"Escape">>, <<"Up", "Right", "Space">> } }
    \cup { situation(<< walker(40), walker(2) >>, 3, 1, 0, <<"Space">>, d) : d \in {50, 100} }
    \cup { situation(<< walker(58) >>, 3, 2, 0, <<"Space">>, d) : d \in {50, 100} }
    \cup { situation(<< walker(40), walker(41) >>, 3, 1, 0, <<"Space">>, 100),
           situation(<< walker(40), walker(2) >>, 3, 1, 1, <<>>, 500),
           situation(<< walker(6) >>, 3, 2, 0, <<"Left", "Space">>, 50),
           situation(<< walker(33) >>, 3, 2, 0, <<>>, 500),
           situation(<< walker(33) >>, 3, 2, 0, <<"Space", "Enter">>, 500),
           situation(<< walker(33) >>, 3, 2, 0, <<"Space", "Space">>, 500),
           situation(<< walker(33) >>, 3, 2, 0, <<"Space", "Resize">>, 500),
           situation(<< walker(33) >>, 3, 2, 0, <<"Space", "Right">>, 50),
           situation(<< walker(36) >>, 3, 2, 0, <<"Up">>, 50),
           situation(<< walker(36) >>, 3, 2, 0, <<"Up">>, 100),
           situation(<<>>, 3, 3, 0, <<"Up">>, 33),
           situation(<< walker(32) >>, 3, 2, 0, <<"Space">>, 100),
           situation(<< shooter(52) >>, 4, 3, 0, <<"Left">>, 500),
           situation(<<>>, 3, 3, 0, <<"Space", "Space">>, 50),
           situation(<< shooter(52) >>, 4, 3, 0, <<"Space", "Space">>, 500),
           situation(<<>>, 3, 3, 0, <<"Resize", "Right">>, 50),
           [situation(<<>>, 0, 0, 0, <<>>, 500) EXCEPT !.menu = TRUE],
           [situation(<<>>, 3, 3, 0, <<>>, 50) EXCEPT !.script = script],
           [situation(<<>>, 3, 2, 0, <<>>, 200)
               EXCEPT !.corpses = << [wandering EXCEPT !.Pos.X = 38 * Cell] >>,
                      !.debris = << [falling EXCEPT !.Pos = Vec(40 * Cell, 12 * Cell),
                                                    !.WasOnPlatform = FALSE] >>],
           [situation(<< walker(33) >>, 3, 2, 0, <<"Space", "Enter">>, 500)
               EXCEPT !.corpses = << wandering >>],
           [situation(<<>>, 0, 0, 0, <<"Space">>, 500)
               EXCEPT !.menu = TRUE, !.corpses = << wandering >>, !.nextEnemyID = 3],
           [situation(<<>>, 0, 0, 0, <<"Space">>, 100) EXCEPT !.menu = TRUE],
           [situation(<<>>, 0, 0, 0,
                      <<"Space", "Left", "Left", "Left", "Left", "Left", "Right", "Space",
                        "Right", "Escape">>, 100)
               EXCEPT !.menu = TRUE,
                      !.corpses = << [wandering EXCEPT !.EnemyID = 1,
                                                       !.EndTime = StartTime + 1400] >>,
                      !.nextEnemyID = 2],
           [situation(<<>>, 3, 1, 0, <<>>, 100) EXCEPT !.debris = << falling >>],
           [situation(<<>>, 3, 1, 0, <<"Resize">>, 50)
               EXCEPT !.debris = << [falling EXCEPT !.Pos = Vec(40 * Cell, 5 * Cell)] >>],
           [situation(<<>>, 3, 3, 0, <<"Resize", "Resize">>, 50)
               EXCEPT !.debris = << [falling EXCEPT !.Pos = Vec(22 * Cell, (27 * Cell) \div 2),
                                                    !.FallsThrough = TRUE,
                                                    !.WasOnPlatform = FALSE] >>],
           [situation(<< [shooter(56) EXCEPT !.LastShot = StartTime - 200,
                                             !.NextShotDelay = 2000] >>,
                      4, 3, 0, <<>>, 50) EXCEPT !.projectiles = << incoming >>] }

round(h) ==
    [player |-> newPlayer(60, 19, StartTime),
     projectiles |-> h.projectiles, enemies |-> h.enemies,
     deathParticles |-> h.debris, corpses |-> h.corpses, bloodParticles |-> <<>>,
     platforms |-> newPlatforms(60, 19),
     score |-> 10 * h.kills, gameOver |-> FALSE, inMenu |-> h.menu,
     width |-> 60, height |-> 20, groundY |-> 19,
     redGroundTiles |-> {}, redPlatformTiles |-> {},
     nextEnemyID |-> h.nextEnemyID, enemiesDefeated |-> h.kills,
     enemySpawnCounter |-> h.spawned,
     keys |-> [k \in Keys |-> 0],
     lastShot |-> IF h.projectiles = <<>> THEN 0 ELSE StartTime,
     menuLastShot |-> 0, menuLastEnemySpawn |-> 0]

Init ==
    \E h \in {x \in Situations : Len(x.typed) <= MaxInput} :
        /\ g = round(h)
        /\ dt = h.dt
        /\ inputChan = h.typed
        /\ pending = h.script
    /\ now = StartTime
    /\ pc = "frame"
    /\ swept = <<>>
    /\ handled = <<>>
    /\ stainedBy = {}

Spec == Init /\ [][Next]_vars

----------------------------------------------------------------------------
(* Properties of the debris: fragments, corpses and stains.                *)

Fragments(G) == {G.deathParticles[i] : i \in 1..Len(G.deathParticles)}
Blood(G) == {G.bloodParticles[i] : i \in 1..Len(G.bloodParticles)}

\* a fragment that lies still on a surface
atRest(p) == p.OnGround /\ p.Vel.Y = 0 /\ ~rollingHead(p)

\* the fragment lies on the ground line or over a platform, inside the viewport
supported(p, G) ==
    /\ ~belowViewport(p, G) /\ ~besideViewport(p, G)
    /\ (firstPlatform(p, G.platforms) # 0 \/ p.Pos.Y >= (G.groundY - 1) * Cell)

C2_NeverEarlier ==
    [][pc = "debris" =>
          \A p \in Fragments(g) :
              (p.EnemyID # 0 /\ atRest(p) /\ supported(p, g)
               /\ now - p.GroundTime < settleDelay)
              => p \in Fragments(g')]_vars

\* C2, amended: while the round is not over, a settled opponent fragment that
\* is not a rolling head stays as long as less than 3 s have passed since it
\* settled and is removed by the first update at which 3 s have passed; once
\* the round is over the update removes every opponent fragment at once.
C2_SettleTimer ==
    [][pc = "debris" =>
          /\ \A p \in Fragments(g) :
                 (~g.gameOver /\ p.EnemyID # 0 /\ atRest(p) /\ supported(p, g))
                 => IF now - p.GroundTime < settleDelay
                    THEN p \in Fragments(g')
                    ELSE p \notin Fragments(g')
          /\ g.gameOver => \A p \in Fragments(g') : p.EnemyID = 0]_vars

\* the timer of a settled opponent fragment runs out during a round
C2_TimerRunsOut ==
    /\ pc = "debris"
    /\ ~g.gameOver
    /\ \E p \in Fragments(g) :
           /\ p.EnemyID # 0 /\ atRest(p) /\ supported(p, g)
           /\ now - p.GroundTime >= settleDelay
    /\ \E p \in Fragments(g) :
           /\ p.EnemyID # 0 /\ atRest(p) /\ supported(p, g)
           /\ now - p.GroundTime < settleDelay

\* C3: a settled fragment of the player (id 0) inside the viewport survives
\* every update of the fragments, however long ago it settled.
C3_PlayerDebrisStays ==
    [][pc = "debris" =>
          \A p \in Fragments(g) :
              (p.EnemyID = 0 /\ atRest(p) /\ supported(p, g)) => p \in Fragments(g')]_vars

\* a fragment of the player has outlived the 3 s of an opponent fragment
C3_PlayerDebrisOutlivesTimer ==
    /\ pc = "blood"
    /\ \E p \in Fragments(g) :
           /\ p.EnemyID = 0 /\ atRest(p) /\ supported(p, g)
           /\ now - p.GroundTime >= settleDelay

\* the corpses that expire in the update of this tick
expiring(G, t) == {i \in 1..Len(G.corpses) : G.corpses[i].Active /\ t > G.corpses[i].EndTime}

\* the fragments with index above n that carry the id and lie in the 3 x 3
\* box at pos
burstAt(G, n, id, pos) ==
    {k \in (n + 1)..Len(G.deathParticles) :
        /\ G.deathParticles[k].EnemyID = id
        /\ G.deathParticles[k].Pos.X \in pos.X..(pos.X + 2 * Cell)
        /\ G.deathParticles[k].Pos.Y \in pos.Y..(pos.Y + 2 * Cell)}

\* C4: the first update at which the time is past a corpse's deadline switches
\* the corpse off and adds one burst of 6 fragments with the corpse's id at the
\* position the corpse has after its move of this tick; an update does not
\* touch a switched-off corpse, keeps a corpse before its deadline active, and
\* adds no other fragment.
C4_CorpseBurstsOnce ==
    [][pc = "corpses" =>
          /\ Len(g'.corpses) = Len(g.corpses)
          /\ Len(g'.deathParticles)
                 = Len(g.deathParticles) + 6 * Cardinality(expiring(g, now))
          /\ SubSeq(g'.deathParticles, 1, Len(g.deathParticles)) = g.deathParticles
          /\ \A i \in 1..Len(g.corpses) :
                 IF i \in expiring(g, now)
                 THEN /\ ~g'.corpses[i].Active
                      /\ Cardinality(burstAt(g', Len(g.deathParticles),
                                             g.corpses[i].EnemyID, g'.corpses[i].Pos)) = 6
                 ELSE IF g.corpses[i].Active
                 THEN g'.corpses[i].Active
                 ELSE g'.corpses[i] = g.corpses[i]]_vars

\* a corpse has just expired and left its burst
C4_CorpseExpired ==
    /\ pc = "debris"
    /\ \E i \in 1..Len(g.corpses) :
           /\ ~g.corpses[i].Active
           /\ now > g.corpses[i].EndTime
           /\ now - dt <= g.corpses[i].EndTime
           /\ Cardinality({k \in 1..Len(g.deathParticles) :
                              g.deathParticles[k].EnemyID = g.corpses[i].EnemyID}) >= 6

\* the ids some active fragment or blood particle carries
liveIDs(G) ==
    {p.EnemyID : p \in {q \in Fragments(G) : q.Active}}
    \cup {p.EnemyID : p \in {q \in Blood(G) : q.Active}}

\* C5: at the end of every tick each stain, on the ground or on a platform,
\* carries an id that an active fragment or blood particle carries too.
C5_StainsHaveDebris ==
    pc = "frame" =>
        \A kv \in g.redGroundTiles \cup g.redPlatformTiles : kv[2] \in liveIDs(g)

\* a tick ends with stains of one opponent left and the stains of an earlier
\* one gone
C5_StainsAtEndOfTick ==
    /\ pc = "frame"
    /\ g.redGroundTiles # {}
    /\ \E id \in 1..(g.nextEnemyID - 1) :
           /\ id \notin liveIDs(g)
           /\ \A kv \in g.redGroundTiles \cup g.redPlatformTiles : kv[2] # id

\* C8: sweeping the stains twice in a row leaves the same game as sweeping
\* them once.
C8_SweepIdempotent ==
    checkAndClearRedTiles(checkAndClearRedTiles(g)) = checkAndClearRedTiles(g)

\* the sweep is about to remove stains
C8_SweepHasWork ==
    /\ pc = "sweep"
    /\ checkAndClearRedTiles(g) # g

----------------------------------------------------------------------------
(* Properties of the collisions and of the landing on platforms.           *)

\* the projectile p is level with the opponent e
level(p, e) == p.Pos.Y < e.Pos.Y + EnemyHeight * Cell /\ p.Pos.Y + Cell > e.Pos.Y

\* the move of p from its previous to its current position goes across the
\* box of e: the box lies between the two positions and touches neither
straddles(p, e) ==
    /\ level(p, e)
    /\ \/ p.PrevPos.X + Cell <= e.Pos.X /\ e.Pos.X + EnemyWidth * Cell <= p.Pos.X
       \/ p.Pos.X + Cell <= e.Pos.X /\ e.Pos.X + EnemyWidth * Cell <= p.PrevPos.X

\* the box of e meets the stretch p has moved along, ends included
inPath(p, e) ==
    /\ level(p, e)
    /\ Min(p.PrevPos.X, p.Pos.X) < e.Pos.X + EnemyWidth * Cell
    /\ e.Pos.X < Max(p.PrevPos.X, p.Pos.X) + Cell

\* C6: when the last move of a projectile of the player went across the box
\* of an active opponent, wherever in the viewport the opponent stands, and
\* no other opponent is in the projectile's path, the next collision check of
\* a round that goes on kills that opponent.
C6_SweptDetection ==
    [][(pc = "collisions" /\ ~playerDefeated(g)) =>
          \A k \in 1..Len(swept) : \A j \in 1..Len(g.enemies) :
              (/\ ~swept[k].IsEnemy
               /\ g.enemies[j].Active
               /\ g.enemies[j].Pos.X >= 0
               /\ g.enemies[j].Pos.X <= (g.width - EnemyWidth) * Cell
               /\ straddles(swept[k], g.enemies[j])
               /\ \A other \in 1..Len(g.enemies) :
                      (other # j /\ g.enemies[other].Active) => ~inPath(swept[k], g.enemies[other]))
              => ~g'.enemies[j].Active]_vars

\* the player after the moves of updatePlayer and before its landing checks
movedPlayer == jumpPlayer(walkPlayer(g.player, g, now, deltaTime), g, now, deltaTime)

\* the actor a, of width w and height h and with its feet at or above the top
\* of the platform before the tick, comes down through that top inside the
\* platform's horizontal extent when moved to m
descendsOnto(a, m, w, h, platform) ==
    /\ a.Pos.Y + h * Cell <= platform.Y
    /\ m.Vel.Y > 0
    /\ m.Pos.Y + h * Cell > platform.Y
    /\ m.Pos.X < platform.X + platform.Width
    /\ m.Pos.X + w * Cell > platform.X

\* C7, for the player: in a tick in which the player descends onto a platform
\* it ends the tick standing on it, at the platform's top minus its height and
\* with no vertical speed, and off the ground.
C7_LandsOnPlatform ==
    [][pc = "player" =>
          \A k \in 1..Len(g.platforms) :
              (/\ g.platforms[k].Y < (g.groundY - 1) * Cell
               /\ descendsOnto(g.player, movedPlayer, PlayerWidth, PlayerHeight, g.platforms[k])
               /\ \A other \in 1..Len(g.platforms) :
                      other # k => ~descendsOnto(g.player, movedPlayer, PlayerWidth,
                                                 PlayerHeight, g.platforms[other]))
              => /\ g'.player.Pos.Y = g.platforms[k].Y - PlayerHeight * Cell
                 /\ g'.player.Vel.Y = 0
                 /\ g'.player.OnPlatform
                 /\ ~g'.player.OnGround]_vars

\* C9: a collision check that leaves the round going has switched off as many
\* opponents as projectiles, has added 10 to the score and 1 to the kill
\* count for each, and has drawn one fresh id for each; the debris added
\* carries these ids, and each id is on 6 fragments and no corpse, or on one
\* head and one corpse.
C9_KillEffects ==
    [][(pc = "collisions" /\ ~g'.gameOver) =>
          LET killed == {j \in 1..Len(g.enemies) : g.enemies[j].Active /\ ~g'.enemies[j].Active}
              spent == {i \in 1..Len(g.projectiles) :
                           g.projectiles[i].Active /\ ~g'.projectiles[i].Active}
              n == Cardinality(killed)
              pieces == (Len(g.deathParticles) + 1)..Len(g'.deathParticles)
              bodies == (Len(g.corpses) + 1)..Len(g'.corpses)
              ids == g.nextEnemyID..(g.nextEnemyID + n - 1)
          IN  /\ Len(g'.enemies) = Len(g.enemies)
              /\ Len(g'.projectiles) = Len(g.projectiles)
              /\ \A j \in 1..Len(g.enemies) : g'.enemies[j].Active => g.enemies[j].Active
              /\ \A i \in spent : ~g.projectiles[i].IsEnemy
              /\ Cardinality(spent) = n
              /\ g'.score = g.score + 10 * n
              /\ g'.enemiesDefeated = g.enemiesDefeated + n
              /\ g'.nextEnemyID = g.nextEnemyID + n
              /\ SubSeq(g'.deathParticles, 1, Len(g.deathParticles)) = g.deathParticles
              /\ SubSeq(g'.corpses, 1, Len(g.corpses)) = g.corpses
              /\ \A k \in pieces : g'.deathParticles[k].EnemyID \in ids
              /\ \A k \in bodies : g'.corpses[k].EnemyID \in ids
              /\ \A id \in ids :
                     LET mine == {k \in pieces : g'.deathParticles[k].EnemyID = id}
                         body == {k \in bodies : g'.corpses[k].EnemyID = id}
                     IN  \/ Cardinality(mine) = 6 /\ body = {}
                         \/ /\ Cardinality(mine) = 1
                            /\ \A k \in mine : g'.deathParticles[k].IsHead
                            /\ Cardinality(body) = 1]_vars

\* a collision check has just killed an opponent
C9_KillJustMade ==
    /\ pc = "projectiles"
    /\ ~g.gameOver
    /\ \E j \in 1..Len(g.enemies) : ~g.enemies[j].Active
    /\ \E i \in 1..Len(g.projectiles) : ~g.projectiles[i].Active
    /\ g.score >= 10
    /\ Cardinality({k \in 1..Len(g.deathParticles) :
                       g.deathParticles[k].EnemyID = g.nextEnemyID - 1}) = 6

\* C10: a collision check kills no more opponents than it uses up projectiles
\* of the player, counts each opponent killed once, leaves the opponents
\* that were inactive alone, and a projectile that is the only one in flight
\* kills nothing but the first active opponent that it hits.
C10_OneKillPerProjectile ==
    [][(pc = "collisions" /\ ~g'.gameOver) =>
          LET killed == {j \in 1..Len(g.enemies) : g.enemies[j].Active /\ ~g'.enemies[j].Active}
              spent == {i \in 1..Len(g.projectiles) :
                           g.projectiles[i].Active /\ ~g'.projectiles[i].Active}
              inFlight == {i \in 1..Len(g.projectiles) :
                            g.projectiles[i].Active /\ ~g.projectiles[i].IsEnemy}
          IN  /\ Cardinality(killed) <= Cardinality(spent)
              /\ spent \subseteq inFlight
              /\ g'.enemiesDefeated - g.enemiesDefeated = Cardinality(killed)
              /\ \A j \in 1..Len(g.enemies) :
                     ~g.enemies[j].Active => g'.enemies[j] = g.enemies[j]
              /\ \A i \in inFlight :
                     inFlight = {i} =>
                         \A j \in killed :
                             /\ sweptHit(g.projectiles[i], g.enemies[j])
                             /\ \A first \in 1..(j - 1) :
                                    ~(g.enemies[first].Active
                                      /\ sweptHit(g.projectiles[i], g.enemies[first]))]_vars

\* a projectile has killed one opponent and spared another one in its path
C10_SecondOpponentSpared ==
    /\ pc = "projectiles"
    /\ \E i \in 1..Len(g.projectiles) : \E j1, j2 \in 1..Len(g.enemies) :
           /\ ~g.projectiles[i].Active /\ ~g.projectiles[i].IsEnemy
           /\ ~g.enemies[j1].Active
           /\ g.enemies[j2].Active
           /\ sweptHit(g.projectiles[i], g.enemies[j1])
           /\ sweptHit(g.projectiles[i], g.enemies[j2])

----------------------------------------------------------------------------
(* Properties of the defeat and of the state of a round that is over.      *)

\* the box at (x, y) of w by h cells meets the box of the player
meetsPlayer(x, y, w, h) ==
    /\ g.player.Pos.X < x + w * Cell /\ x < g.player.Pos.X + PlayerWidth * Cell
    /\ g.player.Pos.Y < y + h * Cell /\ y < g.player.Pos.Y + PlayerHeight * Cell

touchedByOpponent ==
    \E j \in 1..Len(g.enemies) :
        /\ g.enemies[j].Active
        /\ meetsPlayer(g.enemies[j].Pos.X, g.enemies[j].Pos.Y, EnemyWidth, EnemyHeight)

touchedByShot ==
    \E i \in 1..Len(g.projectiles) :
        /\ g.projectiles[i].Active /\ g.projectiles[i].IsEnemy
        /\ meetsPlayer(g.projectiles[i].Pos.X, g.projectiles[i].Pos.Y, 1, 1)

\* C11: the collision check of a tick sets gameOver exactly when the box of
\* the player meets the box of an active opponent or of an active projectile
\* of an opponent, and no other step of the program sets gameOver.
C11_DefeatIffTouched ==
    [][IF pc = "collisions"
       THEN g'.gameOver <=> (touchedByOpponent \/ touchedByShot)
       ELSE g'.gameOver => g.gameOver]_vars

\* the player has just been defeated by a projectile of an opponent
C11_DefeatedByShot ==
    /\ pc = "projectiles"
    /\ g.gameOver
    /\ touchedByShot
    /\ ~touchedByOpponent

\* the projectile p after one more tick of flight
flownOn(p) ==
    [p EXCEPT !.PrevPos = p.Pos,
              !.Pos.X = @ + p.Dir * MulDiv(IF p.IsEnemy THEN enemyProjectileSpeed
                                           ELSE playerProjectileSpeed, deltaTime, 1000)]

\* the opponent e goes on walking: it is found one step further, or has left
\* the viewport
walksOn(e, G) ==
    LET step == MulDiv(baseSpeed, deltaTime, 1000)
    IN  \/ \E k \in 1..Len(G.enemies) : Abs(G.enemies[k].Pos.X - e.Pos.X) = step
        \/ e.Pos.X - step < -EnemyWidth * Cell
        \/ e.Pos.X + step > G.width * Cell

\* C12, as stated: while the round is over a projectile that stays inside
\* the viewport keeps advancing and a settled fragment or a blood particle
\* of an opponent is not removed because the round is over.
C12_AllKeepsRunning ==
    [][g.gameOver =>
          /\ pc = "projectiles" =>
                 \A i \in 1..Len(g.projectiles) :
                     (/\ g.projectiles[i].Active
                      /\ flownOn(g.projectiles[i]).Pos.X \in 0..(g.width * Cell))
                     => \E k \in 1..Len(g'.projectiles) :
                            g'.projectiles[k] = flownOn(g.projectiles[i])
          /\ pc = "debris" =>
                 \A p \in Fragments(g) :
                     (/\ p.EnemyID # 0 /\ atRest(p) /\ supported(p, g)
                      /\ now - p.GroundTime < settleDelay)
                     => p \in Fragments(g')]_vars

\* C12, amended: while the round is over the opponents go on walking until
\* they leave the viewport and the settled fragments of the player stay; the
\* first update of the projectiles removes every projectile, the first
\* update of the fragments every fragment of an opponent, and the first
\* update of the blood every blood particle of an opponent.
C12_OnlyPlayerDebrisKeepsRunning ==
    [][g.gameOver =>
          /\ pc = "projectiles" => g'.projectiles = <<>>
          /\ pc = "enemies" =>
                 /\ Len(g'.enemies) <= Len(g.enemies)
                 /\ \A j \in 1..Len(g.enemies) :
                        g.enemies[j].Active => walksOn(g.enemies[j], g')
          /\ pc = "debris" =>
                 /\ \A p \in Fragments(g') : p.EnemyID = 0
                 /\ \A p \in Fragments(g) :
                        (p.EnemyID = 0 /\ atRest(p) /\ supported(p, g))
                        => p \in Fragments(g')
          /\ pc = "blood" => \A p \in Blood(g') : p.EnemyID = 0]_vars

\* the player has just been defeated while a projectile is in flight and an
\* opponent walks
C12_DefeatAmidDebris ==
    /\ g.gameOver
    /\ pc = "projectiles"
    /\ \E i \in 1..Len(g.projectiles) : g.projectiles[i].Active
    /\ \E j \in 1..Len(g.enemies) : g.enemies[j].Active

\* C13 as stated: while gameOver is true every step other than the handling
\* of Enter leaves it true and leaves the player's position, the score and
\* the kill counter alone, and no step adds a projectile.  A resize of the
\* viewport handled while the round is over moves the player.
C13_NothingChangesWhileOver ==
    [][g.gameOver =>
          /\ polled # "Enter" =>
                 /\ g'.gameOver
                 /\ g'.player.Pos = g.player.Pos
                 /\ g'.score = g.score
                 /\ g'.enemiesDefeated = g.enemiesDefeated
          /\ Len(g'.projectiles) <= Len(g.projectiles)]_vars

\* C13, amended: while gameOver is true every step other than the handling of Enter
\* leaves it true and leaves the score and the kill counter alone, every
\* step other than the handling of Enter or of a resize of the viewport
\* leaves the player where it is, and no step adds a projectile.
C13_OverIsTerminal ==
    [][g.gameOver =>
          /\ polled # "Enter" =>
                 /\ g'.gameOver
                 /\ g'.score = g.score
                 /\ g'.enemiesDefeated = g.enemiesDefeated
          /\ polled \notin {"Enter", "Resize"} => g'.player = g.player
          /\ polled = "Enter" => ~g'.gameOver /\ g'.inMenu
          /\ Len(g'.projectiles) <= Len(g.projectiles)]_vars

\* the fire key is about to be handled while the round is over
C13_FireWhileOver ==
    /\ g.gameOver
    /\ pc = "frame"
    /\ frame < MaxTicks
    /\ inputChan # <<>>
    /\ Head(inputChan) = "Space"

----------------------------------------------------------------------------
(* Properties of the start and of the restart of a round                   *)

\* C14: after the start and after the restart of a round there are no
\* projectiles, opponents, fragments, blood particles, active corpses or
\* stains, score and kill counter are 0 and gameOver is false.
C14_ResetClearsAll ==
    [][resets =>
          /\ g'.projectiles = <<>>
          /\ g'.enemies = <<>>
          /\ g'.deathParticles = <<>>
          /\ g'.bloodParticles = <<>>
          /\ \A i \in 1..Len(g'.corpses) : ~g'.corpses[i].Active
          /\ g'.redGroundTiles = {}
          /\ g'.redPlatformTiles = {}
          /\ g'.score = 0
          /\ g'.enemiesDefeated = 0
          /\ ~g'.gameOver]_vars

----------------------------------------------------------------------------
(* Properties of the stains                                                *)

\* C15: a tile stained by a source stays stained while that source has an
\* active fragment or blood particle and no reset intervenes, whatever other
\* sources leave on the tile.
C15_StainLastsWithSource ==
    \A h \in stainedBy :
        h[2] \in keysOf(IF h[1] = "ground" THEN g.redGroundTiles ELSE g.redPlatformTiles)

----------------------------------------------------------------------------
(* Properties of the input handoff                                         *)

\* C16: no step loses, repeats or reorders an event: the events received,
\* then those waiting in inputChan, then those the goroutine has still to
\* send are the same sequence before and after, and the channel never
\* holds more than its 10 slots.
C16_HandoffInOrder ==
    [][/\ handled' \o inputChan' \o pending' = handled \o inputChan \o pending
       /\ Len(handled') >= Len(handled)
       /\ Len(inputChan') <= inputChanSize]_vars

\* the channel is full, the goroutine waits with its next event, and the loop
\* has already received some
C16_ProducerBlocked ==
    /\ Len(inputChan) = inputChanSize
    /\ pending # <<>>
    /\ handled # <<>>

\* C17: the step that starts a tick receives every event that waits in
\* inputChan at that moment, in order, and leaves the channel empty; it is
\* always enabled, whether or not events wait.
C17_DrainsQueue ==
    [][pc = "frame" /\ pc' # "frame" =>
          /\ handled' = handled \o inputChan
          /\ inputChan' = <<>>]_vars

----------------------------------------------------------------------------
(* Properties of the fire rate                                             *)

playerShots(G) == SelectSeq(G.projectiles, LAMBDA p : ~p.IsEnemy)

\* the opponents armed on an earlier tick whose last shot or arming is at
\* least 1 s old
due(G, t) ==
    {i \in 1..Len(G.enemies) :
        /\ G.enemies[i].Active /\ G.enemies[i].CanShoot
        /\ G.enemies[i].LastShot # 0
        /\ t - G.enemies[i].LastShot >= 1000}

\* C18: in a round lastShot is the time of the player's last projectile, and
\* a projectile of the player is created only more than 200 ms after it; an
\* opponent fires only when it was armed on an earlier tick and at least 1 s
\* after it was armed or fired last, and the delay of an armed opponent lies
\* between 1 s and 3 s.
C18_FireRate ==
    [][/\ ~g.inMenu /\ ~g'.inMenu =>
            IF Len(playerShots(g')) > Len(playerShots(g))
            THEN now' - g.lastShot > 200 /\ g'.lastShot = now'
            ELSE g'.lastShot = g.lastShot
       /\ pc = "enemies" =>
            /\ Len(g'.projectiles) - Len(g.projectiles) <= Cardinality(due(g, now))
            /\ \A p \in {g'.projectiles[k] : k \in Len(g.projectiles) + 1..Len(g'.projectiles)} :
                   p.IsEnemy
       /\ pc # "enemies" /\ ~g.inMenu =>
            Len(SelectSeq(g'.projectiles, LAMBDA p : p.IsEnemy))
                <= Len(SelectSeq(g.projectiles, LAMBDA p : p.IsEnemy))
       /\ \A i \in 1..Len(g'.enemies) :
            g'.enemies[i].LastShot # 0 =>
                g'.enemies[i].NextShotDelay >= 1000 /\ g'.enemies[i].NextShotDelay <= 3000]_vars

\* the player has fired twice, and an opponent that was armed in the first
\* frame, and so had fired within the 2 s that followed, has just fired again
C18_SecondShots ==
    /\ pc = "corpses"
    /\ handled = <<"Space", "Space">>
    /\ g.lastShot = StartTime + 2 * dt
    /\ Len(g.enemies) = 1
    /\ g.enemies[1].LastShot = now
    /\ now > StartTime + dt + 2000
    /\ \E i \in 1..Len(g.projectiles) :
          /\ g.projectiles[i].IsEnemy
          /\ g.projectiles[i].Pos = g.projectiles[i].PrevPos

----------------------------------------------------------------------------
(* Properties of the player's movement                                     *)

\* C19: updatePlayer and the handling of a resize leave the player inside
\* the viewport: 0 <= X and X + PlayerWidth <= width.
C19_PlayerInViewport ==
    [][pc = "player" \/ polled = "Resize" =>
          /\ g'.width >= PlayerWidth
          /\ 0 <= g'.player.Pos.X
          /\ g'.player.Pos.X + PlayerWidth * Cell <= g'.width * Cell]_vars

\* the viewport has shrunk to 32 columns and the player, walking right, is
\* held at its right edge by updatePlayer
C19_HeldAtRightEdge ==
    /\ pc = "collisions"
    /\ g.width = 32
    /\ g.keys["Right"] = now
    /\ g.player.Pos.X = (g.width - PlayerWidth) * Cell

\* the player after the jump, the gravity and the vertical movement of this
\* tick, before the landing tests
aloft == jumpPlayer(walkPlayer(g.player, g, now, deltaTime), g, now, deltaTime)

\* the ground level of the player
groundLevel(G) == (G.groundY - PlayerHeight) * Cell

\* C20: the tick in which a player on the ground jumps ends with OnGround
\* false; OnGround turns true only in an updatePlayer whose vertical
\* movement ends at or below the ground level with Vy >= 0 (or by the reset
\* of a start or restart); and while OnGround is true the player is at the
\* ground level and does not move upward.
C20_GroundedOnlyOnLanding ==
    [][/\ pc = "player" /\ g.player.OnGround /\ pressed(g, "Up", now) => ~g'.player.OnGround
       /\ ~g.player.OnGround /\ g'.player.OnGround /\ ~resets =>
              /\ pc = "player"
              /\ aloft.Pos.Y >= groundLevel(g)
              /\ aloft.Vel.Y >= 0
       /\ g'.player.OnGround =>
              /\ g'.player.Pos.Y = groundLevel(g')
              /\ g'.player.Vel.Y >= 0]_vars

\* the player, who jumped from the ground with the only key typed, has come
\* down and landed in this tick
C20_LandedAfterJump ==
    /\ pc = "collisions"
    /\ handled = <<"Up">>
    /\ pending = <<>>
    /\ g.player.OnGround
    /\ g.player.LastOnGroundTime = now
    /\ now > StartTime + dt

----------------------------------------------------------------------------
(* Properties of the fragments that fall through the ground                *)

\* the ground plane of the fragments (line 1483)
groundLine(G) == (G.groundY - 1) * Cell

\* the fragments that have passed through the ground
marked(G) == {p \in Fragments(G) : p.Bounces = fallThroughMark}

\* the blood particles of impact bursts among those added by this step
impacts ==
    {k \in Len(g.bloodParticles) + 1 .. Len(g'.bloodParticles) :
        g'.bloodParticles[k].Lifetime \in {400, 1000}}

----------------------------------------------------------------------------
(* Properties of the blood particles                                       *)

\* the blood particles of this tick after gravity and movement
movedBlood ==
    LET kept == purgeOpponentDebris(g, g.bloodParticles)
    IN  [i \in 1..Len(kept) |-> [fallBlood(kept[i], deltaTime) EXCEPT !.Lifetime = @ - deltaTime]]

onTile(q, G) == Trunc(q.Pos.X) >= 0 /\ Trunc(q.Pos.X) < G.width

\* the stains that the moved blood particles owe
bloodStained ==
    \A i \in 1..Len(movedBlood) :
        LET q == movedBlood[i]
            k == bloodPlatform(q, g.platforms)
        IN  /\ k # 0 /\ onTile(q, g) =>
                (k - 1) * 10000 + Trunc(q.Pos.X) \in keysOf(g'.redPlatformTiles)
            /\ k = 0 /\ q.Pos.Y >= g.groundY * Cell /\ onTile(q, g) =>
                Trunc(q.Pos.X) \in keysOf(g'.redGroundTiles)

outOfBlood(q, G) ==
    \/ q.Lifetime <= 0
    \/ q.Pos.X < -10 * Cell \/ q.Pos.X > (G.width + 10) * Cell
    \/ q.Pos.Y > G.height * Cell

\* C22 as stated: a blood particle that touches a platform or the ground
\* stains its tile and is deactivated in that tick; one that touches neither
\* is deactivated only by its lifetime or by leaving the viewport.
C22_TouchEndsParticle ==
    [][pc = "blood" =>
          /\ bloodStained
          /\ g'.bloodParticles =
                 SelectSeq(movedBlood,
                           LAMBDA q : /\ bloodPlatform(q, g.platforms) = 0
                                      /\ q.Pos.Y < g.groundY * Cell
                                      /\ ~outOfBlood(q, g))]_vars

\* C22, amended: a blood particle that touches a platform stains its tile and
\* is deactivated in that tick; one that is at or below the ground row stains
\* its ground tile (if the tile is inside the viewport) but is not
\* deactivated by that; every particle that touches no platform is
\* deactivated only by its lifetime or by leaving the viewport.
C22_PlatformEndsParticle ==
    [][pc = "blood" =>
          /\ bloodStained
          /\ g'.bloodParticles =
                 SelectSeq(movedBlood,
                           LAMBDA q : /\ bloodPlatform(q, g.platforms) = 0
                                      /\ ~outOfBlood(q, g))]_vars

\* a blood particle has stained the ground tile it lies on and is still
\* active at the end of updateBloodParticles
C22_StaysOnGround ==
    /\ pc = "sweep"
    /\ \E q \in Blood(g) :
          /\ q.Pos.Y >= g.groundY * Cell
          /\ <<Trunc(q.Pos.X), q.EnemyID>> \in g.redGroundTiles

----------------------------------------------------------------------------
(* Properties of the player's jump                                         *)

\* updatePlayer has applied the jump impulse in this step: the player leaves
\* it with the jump speed and one step of gravity
impulse == g'.player.Vel.Y = -85 * Cell + MulDiv(gravity, deltaTime, 1000)

supportedPlayer(pl) == pl.OnGround \/ pl.OnPlatform

C24_FallsUnderGravity ==
    [][/\ pc = "player"
       /\ ~supportedPlayer(g.player)
       /\ ~supportedPlayer(g'.player)
       => g'.player.Vel.Y = g.player.Vel.Y + MulDiv(gravity, deltaTime, 1000)]_vars

----------------------------------------------------------------------------
(* Properties of the opponents' movement                                   *)

\* the X an opponent walks to in this tick: 20 cells per second to one side,
\* or none
walksTo(e) ==
    LET step == MulDiv(20 * Cell, deltaTime, 1000)
        dx == g.player.Pos.X - e.Pos.X
        distance == Abs(dx)
    IN  IF g.gameOver
        THEN IF 2 * e.Pos.X > g.width * Cell THEN e.Pos.X + step ELSE e.Pos.X - step
        ELSE IF ~e.CanShoot
        THEN IF dx > 0 THEN e.Pos.X + step ELSE e.Pos.X - step
        ELSE IF distance < 30 * Cell
        THEN IF dx > 0 THEN e.Pos.X - step ELSE e.Pos.X + step
        ELSE IF distance > 40 * Cell
        THEN IF dx > 0 THEN e.Pos.X + step ELSE e.Pos.X - step
        ELSE e.Pos.X

\* the active opponents that are still in the viewport after their walk
remaining ==
    SelectSeq(Active(g.enemies),
              LAMBDA e : walksTo(e) >= -EnemyWidth * Cell /\ walksTo(e) <= g.width * Cell)

\* C25: in a round that is not over, updateEnemies moves a non-ranged
\* opponent towards the X of the player (to the left when they are level), a
\* ranged one away from it at a distance below 30, towards it at a distance
\* above 40, and leaves the X of a ranged opponent at a distance in [30, 40].
C25_OpponentsWalk ==
    [][pc = "enemies" /\ ~g.gameOver =>
          /\ Len(g'.enemies) >= Len(remaining)
          /\ \A j \in 1..Len(remaining) :
                /\ g'.enemies[j].CanShoot = remaining[j].CanShoot
                /\ g'.enemies[j].Pos.X = walksTo(remaining[j])]_vars

\* a ranged opponent has backed away from the player into the band and has
\* rested there for some ticks
C25_KeepsDistance ==
    /\ pc = "corpses"
    /\ ~g.gameOver
    /\ now >= StartTime + 10 * dt
    /\ \E i \in 1..Len(g.enemies) :
          /\ g.enemies[i].CanShoot
          /\ g.enemies[i].Facing = 1
          /\ g.enemies[i].Pos.X - g.player.Pos.X >= 30 * Cell
          /\ g.enemies[i].Pos.X - g.player.Pos.X <= 40 * Cell

\* C26: after updateEnemies every opponent of the list is active and has
\* -EnemyWidth <= X <= width; the opponents removed are the inactive ones
\* and those that walked out of this range in this tick, and no other.
C26_OnlyExitsPruned ==
    [][pc = "enemies" =>
          /\ \A j \in 1..Len(g'.enemies) :
                /\ g'.enemies[j].Active
                /\ g'.enemies[j].Pos.X >= -EnemyWidth * Cell
                /\ g'.enemies[j].Pos.X <= g'.width * Cell
          /\ Len(g'.enemies) =
                 Len(remaining) + (g'.enemySpawnCounter - g.enemySpawnCounter)
          /\ \A j \in 1..Len(remaining) : g'.enemies[j].Pos.X = walksTo(remaining[j])]_vars

\* the round is over and the opponent that defeated the player has walked
\* out of the viewport and is gone from the list
C26_WalkedOff ==
    /\ pc = "corpses"
    /\ g.gameOver
    /\ handled = <<>>
    /\ g.enemiesDefeated = 2
    /\ g.projectiles = <<>>
    /\ g.enemies = <<>>

----------------------------------------------------------------------------
(* Properties of the source ids                                            *)

\* the ids on the fragments, the blood particles and the corpses
allIDs(G) ==
    {p.EnemyID : p \in Fragments(G)} \cup {p.EnemyID : p \in Blood(G)}
    \cup {G.corpses[i].EnemyID : i \in 1..Len(G.corpses)}

\* C27: id 0 is on the remains of the player and on nothing else: it appears
\* only with the defeat of the player, whose burst carries it on every
\* fragment, and no corpse carries it; the ids drawn for defeated opponents
\* are at least 1 and, between two starts of a round, each is greater than
\* all ids drawn before.
C27_IdsTellSources ==
    [][/\ 0 \in allIDs(g') => g'.gameOver
       /\ pc = "collisions" /\ ~g.gameOver /\ g'.gameOver =>
              Cardinality({k \in (Len(g.deathParticles) + 1)..Len(g'.deathParticles) :
                              g'.deathParticles[k].EnemyID = 0})
                  = Len(playerPieces(g.player.Facing))
       /\ \A i \in 1..Len(g'.corpses) : g'.corpses[i].EnemyID >= 1
       /\ g'.nextEnemyID >= 1
       /\ g.inMenu /\ polled = "Space" => g'.nextEnemyID = 1
       /\ ~(g.inMenu /\ polled = "Space") =>
              /\ g'.nextEnemyID >= g.nextEnemyID
              /\ (allIDs(g') \ allIDs(g)) \ {0} \subseteq g.nextEnemyID..(g'.nextEnemyID - 1)
              /\ \A id \in g.nextEnemyID..(g'.nextEnemyID - 1) : id \in allIDs(g')]_vars

\* the collision check that ended the round has left the remains of the
\* player, with id 0, beside those of an opponent killed in this round
C27_BothSources ==
    /\ pc = "projectiles"
    /\ g.gameOver
    /\ \E p \in Fragments(g) : p.EnemyID = 0
    /\ \E p \in Fragments(g) : p.EnemyID = g.nextEnemyID - 1 /\ p.EnemyID >= 1

----------------------------------------------------------------------------
(* Properties of the conversion of a corpse                                *)

\* the places of the 6 glyphs of a body, relative to its position
bodyOffsets ==
    {Vec(Cell, 0), Vec(0, Cell), Vec(Cell, Cell), Vec(2 * Cell, Cell),
     Vec(0, 2 * Cell), Vec(2 * Cell, 2 * Cell)}

\* C28: updateCorpses leaves nextEnemyID alone; for each corpse that expires
\* it adds 6 fragments, one at each glyph of the body at the position the
\* corpse has in this tick, all with the id of the corpse and with its
\* platform flag; and the id of a corpse is the id of the head that came off
\* it: whenever a corpse is added, a head fragment with its id is added too.
C28_CorpseBurstKeepsId ==
    [][/\ pc = "corpses" =>
              LET pieces == (Len(g.deathParticles) + 1)..Len(g'.deathParticles)
              IN  /\ g'.nextEnemyID = g.nextEnemyID
                  /\ Cardinality(pieces) = 6 * Cardinality(expiring(g, now))
                  /\ \A k \in pieces :
                         \E i \in expiring(g, now) :
                             g'.deathParticles[k].EnemyID = g.corpses[i].EnemyID
                  /\ \A i \in expiring(g, now) :
                         \A o \in bodyOffsets :
                             \E k \in pieces :
                                 LET p == g'.deathParticles[k]
                                     c == g'.corpses[i]
                                 IN  /\ p.EnemyID = g.corpses[i].EnemyID
                                     /\ p.Pos = Vec(c.Pos.X + o.X, c.Pos.Y + o.Y)
                                     /\ p.WasOnPlatform = c.WasOnPlatform
                                     /\ p.Active /\ ~p.OnGround /\ p.Bounces = 0
       /\ ~resets =>
              \A i \in (Len(g.corpses) + 1)..Len(g'.corpses) :
                  \E k \in (Len(g.deathParticles) + 1)..Len(g'.deathParticles) :
                      /\ g'.deathParticles[k].IsHead
                      /\ g'.deathParticles[k].EnemyID = g'.corpses[i].EnemyID]_vars

\* the last 6 fragments of the list are the pieces of the corpse that has
\* expired in this tick: they carry its id and the first lies where its head
\* would be; no id was drawn for them
C28_BurstWhereCorpseStood ==
    /\ pc = "debris"
    /\ Len(g.deathParticles) >= 6
    /\ \E i \in 1..Len(g.corpses) :
          LET c == g.corpses[i]
              n == Len(g.deathParticles)
          IN  /\ ~c.Active
              /\ now > c.EndTime
              /\ now - dt <= c.EndTime
              /\ g.nextEnemyID > c.EnemyID
              /\ \A k \in (n - 5)..n : g.deathParticles[k].EnemyID = c.EnemyID
              /\ g.deathParticles[n - 5].Pos = Vec(c.Pos.X + Cell, c.Pos.Y)

----------------------------------------------------------------------------
(* Properties of the states of a fragment                                  *)

airborne(p) == ~p.OnGround
rolls(p) == p.OnGround /\ p.Vel.Y = 0 /\ p.Vel.X # 0
settled(p) == p.OnGround /\ p.Vel.Y = 0 /\ p.Vel.X = 0

\* C29: after updateDeathParticles every fragment is airborne, settled or
\* rolling, and only one of these: a fragment on the ground has Vy = 0, and
\* Vx = 0 as well unless it is a head flagged to roll with roll distance
\* left; a fragment that is no head is never flagged to roll and never
\* rolls; and a fragment that rolls now and did not roll before the update
\* has settled in this update and rolls with its roll speed after one step
\* of friction.
C29_FragmentStates ==
    [][pc = "debris" =>
          /\ \A p \in Fragments(g') :
                /\ p.Active
                /\ p.OnGround => p.Vel.Y = 0
                /\ rolls(p) => rollingHead(p)
                /\ ~p.IsHead => ~p.IsRolling /\ ~rolls(p)
                /\ Cardinality({s \in {"airborne", "settled", "rolling"} :
                                   \/ s = "airborne" /\ airborne(p)
                                   \/ s = "settled" /\ settled(p)
                                   \/ s = "rolling" /\ rolls(p)}) = 1
          /\ Len(g'.deathParticles) = Len(g.deathParticles) /\ ~g.gameOver =>
                \A k \in 1..Len(g.deathParticles) :
                    rolls(g'.deathParticles[k]) /\ ~rolls(g.deathParticles[k]) =>
                        /\ airborne(g.deathParticles[k])
                        /\ g'.deathParticles[k].Vel.X =
                               MulDiv(g.deathParticles[k].RollSpeed, 95, 100)]_vars

\* a head has settled on the ground and rolls
C29_HeadRolls ==
    /\ pc = "blood"
    /\ \E p \in Fragments(g) :
          /\ rolls(p) /\ p.IsHead
          /\ p.RollDistance > 0
          /\ Abs(p.Vel.X) < Abs(p.RollSpeed)
          /\ p.Pos.Y = groundLine(g)

----------------------------------------------------------------------------
(* Properties of markGroundRed                                             *)

\* the tiles the marking is tried on: outside the viewport on either side,
\* its first and last column, beneath each platform and beside them
ProbedTiles(G) ==
    {-1, 0, G.width - 1, G.width}
    \cup {Trunc(G.platforms[i].X) - 1 : i \in 1..Len(G.platforms)}
    \cup {Trunc(G.platforms[i].X) : i \in 1..Len(G.platforms)}
    \cup {Trunc(G.platforms[i].X + G.platforms[i].Width) - 1 : i \in 1..Len(G.platforms)}
    \cup {Trunc(G.platforms[i].X + G.platforms[i].Width) : i \in 1..Len(G.platforms)}

beneathPlatform(G, x) ==
    \E i \in 1..Len(G.platforms) :
        Trunc(G.platforms[i].X) <= x /\ x < Trunc(G.platforms[i].X + G.platforms[i].Width)

\* C30: markGroundRed(tileX, sourceId, wasOnPlatform) makes sourceId the
\* source of the ground tile tileX, and changes nothing else, when
\* 0 <= tileX < width and not (wasOnPlatform and the tile is beneath a
\* platform); in every other case it changes nothing at all.  The function
\* is applied to the game as updateBloodParticles, its caller, finds it.
C30_MarksGroundTile ==
    pc = "blood" =>
    \A tileX \in ProbedTiles(g), sourceId \in 0..2, wasOnPlatform \in BOOLEAN :
        LET after == markGroundRed(g, tileX, sourceId, wasOnPlatform)
        IN  IF /\ 0 <= tileX /\ tileX < g.width
               /\ ~(wasOnPlatform /\ beneathPlatform(g, tileX))
            THEN /\ <<tileX, sourceId>> \in after.redGroundTiles
                 /\ \A kv \in after.redGroundTiles : kv[1] = tileX => kv[2] = sourceId
                 /\ {kv \in after.redGroundTiles : kv[1] # tileX}
                        = {kv \in g.redGroundTiles : kv[1] # tileX}
                 /\ after = [g EXCEPT !.redGroundTiles = after.redGroundTiles]
            ELSE after = g

\* updateBloodParticles has marked a ground tile that lies beneath a
\* platform: blood is never taken to come from a platform
C30_StainBeneathPlatform ==
    /\ pc = "sweep"
    /\ \E kv \in g.redGroundTiles :
          /\ beneathPlatform(g, kv[1])
          /\ \E q \in Blood(g) : Trunc(q.Pos.X) = kv[1] /\ q.EnemyID = kv[2]
                                 /\ q.Pos.Y >= g.groundY * Cell

----------------------------------------------------------------------------
(* Properties of the stain requests outside the viewport                   *)

\* the moved blood particles that touch a platform or the ground
touching ==
    {i \in 1..Len(movedBlood) :
        \/ bloodPlatform(movedBlood[i], g.platforms) # 0
        \/ movedBlood[i].Pos.Y >= g.groundY * Cell}

\* C31: updateBloodParticles adds no stain, on the ground or on a platform,
\* for a tile index below 0 or at or above the width: the entries it adds
\* lie inside the viewport, a tick in which every touching particle is
\* outside leaves both stain maps as they were, and the tick goes on to the
\* sweep with the stain maps and the particles the other claims describe.
C31_OutOfRangeIsNoOp ==
    [][pc = "blood" /\ pc' # pc =>
          /\ \A kv \in g'.redGroundTiles \ g.redGroundTiles :
                 0 <= kv[1] /\ kv[1] < g.width
          /\ \A kv \in g'.redPlatformTiles \ g.redPlatformTiles :
                 0 <= kv[1] % 10000 /\ kv[1] % 10000 < g.width
          /\ (\A i \in touching : ~onTile(movedBlood[i], g)) =>
                 /\ g'.redGroundTiles = g.redGroundTiles
                 /\ g'.redPlatformTiles = g.redPlatformTiles
          /\ \A tileX \in {-2, -1, g.width, g.width + 1}, w \in BOOLEAN :
                 markGroundRed(g, tileX, 1, w) = g
          /\ pc' = "sweep"
          /\ Len(g'.bloodParticles) <= Len(g.bloodParticles)]_vars

\* a blood particle lies on the ground row outside the viewport after
\* updateBloodParticles, and no stain was recorded for its tile
C31_BloodOutsideViewport ==
    /\ pc = "sweep"
    /\ \E q \in Blood(g) :
          /\ q.Pos.Y >= g.groundY * Cell
          /\ ~onTile(q, g)
          /\ Trunc(q.Pos.X) \notin keysOf(g.redGroundTiles)

----------------------------------------------------------------------------
(* Properties of the score                                                 *)

\* C32: the score is 10 times the kill count, at the start and after every
\* step; a step of the menu demo changes neither, and a start or a restart
\* sets both to 0.
C32_ScoreCountsKills ==
    /\ g.score = 10 * g.enemiesDefeated
    /\ [][/\ g'.score = 10 * g'.enemiesDefeated
          /\ pc = "menu" =>
                 g'.score = g.score /\ g'.enemiesDefeated = g.enemiesDefeated
          /\ resets => g'.score = 0 /\ g'.enemiesDefeated = 0]_vars

\* the demo of the menu has just killed an opponent: its remains are there,
\* an id was drawn, and nothing was counted
C32_DemoKill ==
    /\ pc = "corpses"
    /\ g.inMenu
    /\ handled = <<>>
    /\ g.nextEnemyID = 2
    /\ \E p \in Fragments(g) : p.EnemyID = 1
    /\ \E j \in 1..Len(g.enemies) : ~g.enemies[j].Active
    /\ g.score = 0 /\ g.enemiesDefeated = 0

----------------------------------------------------------------------------
(* Properties of the modes                                                 *)

mode(G) ==
    IF G.inMenu /\ G.gameOver THEN "both"
    ELSE IF G.inMenu THEN "menu" ELSE IF G.gameOver THEN "over" ELSE "playing"

\* C33: inMenu and gameOver are never both true, and the mode changes in
\* three ways only: from the menu to a round by Space, from a round to over
\* by the defeat of the player in the collision check of update, and from
\* over to the menu by Enter.
C33_ModeCycle ==
    /\ mode(g) # "both"
    /\ [][/\ mode(g') # "both"
          /\ mode(g') # mode(g) =>
                \/ /\ mode(g) = "menu" /\ mode(g') = "playing"
                   /\ pc = "frame" /\ polled = "Space"
                \/ /\ mode(g) = "playing" /\ mode(g') = "over"
                   /\ pc = "collisions" /\ playerDefeated(g)
                \/ /\ mode(g) = "over" /\ mode(g') = "menu"
                   /\ pc = "frame" /\ polled = "Enter"]_vars

\* a round was played and lost, and Enter has brought the menu back
C33_BackInMenu ==
    /\ pc = "menu"
    /\ handled = <<"Space", "Enter">>
    /\ mode(g) = "menu"
    /\ g.corpses = <<>>
    /\ g.score = 0

----------------------------------------------------------------------------
(* Properties of the defeat of the player                                  *)

\* the fragments of the player
remains(G) == {k \in 1..Len(G.deathParticles) : G.deathParticles[k].EnemyID = 0}

\* C34: there are never more than 7 fragments of the player; their number
\* grows only in the collision check that ends the round, from 0, and that
\* check kills no opponent and leaves the score, the kill count and the ids
\* alone.
C34_OneBurstPerRound ==
    [][/\ Cardinality(remains(g')) <= 7
       /\ Cardinality(remains(g')) > Cardinality(remains(g)) =>
              /\ pc = "collisions"
              /\ ~g.gameOver /\ g'.gameOver
              /\ remains(g) = {}
       /\ ~g.gameOver /\ g'.gameOver =>
              /\ Cardinality(remains(g')) = 7
              /\ g'.enemies = g.enemies
              /\ g'.projectiles = g.projectiles
              /\ g'.corpses = g.corpses
              /\ g'.score = g.score
              /\ g'.enemiesDefeated = g.enemiesDefeated
              /\ g'.nextEnemyID = g.nextEnemyID]_vars

\* the player was defeated in the collision check in which one of its
\* projectiles was about to hit an opponent: the opponent is still active
C34_DefeatedBeforeTheHit ==
    /\ pc = "projectiles"
    /\ g.gameOver
    /\ Cardinality(remains(g)) = 7
    /\ \E i \in 1..Len(g.projectiles), j \in 1..Len(g.enemies) :
          /\ g.projectiles[i].Active /\ ~g.projectiles[i].IsEnemy
          /\ g.enemies[j].Active /\ sweptHit(g.projectiles[i], g.enemies[j])


----------------------------------------------------------------------------
(* The run loop never stops: run (lines 2530-2579) sleeps until the next    *)
(* frame is due and polls again, until Escape is handled.                   *)

\* the values of pc
Steps == {"frame", "menu", "player", "collisions", "projectiles", "enemies", "corpses",
          "debris", "blood", "sweep", "exit"}

\* the loop has a next step: it has not returned, and the frame it is about
\* to start is within the frames of a run
ticking == pc # "exit" /\ (pc = "frame" => frame < (IF g.inMenu THEN MenuTicks ELSE MaxTicks))

\* the loop takes its next step.  Every step of the loop changes pc and a
\* step of the goroutine does not, so that under [][Next]_vars a step of GoOn
\* is a step of Poll or of one of the calls of update, and GoOn is enabled
\* exactly where one of them is.
GoOn == ticking /\ pc' \in Steps /\ pc' # pc

\* the situations followed to their end: debris of every kind in the air, a
\* kill about to happen, a defeat about to happen, the menu, and keys on
\* their way from the screen
LongRuns ==
    { [situation(<<>>, 3, 1, 0, <<>>, 500) EXCEPT !.debris = << falling >>],
      [situation(<<>>, 3, 1, 0, <<>>, 100) EXCEPT !.debris = << falling >>],
      [situation(<<>>, 3, 1, 0, <<>>, 500)
          EXCEPT !.debris = << [falling EXCEPT !.Pos = Vec(40 * Cell, 5 * Cell)] >>],
      [situation(<<>>, 3, 1, 0, <<>>, 500)
          EXCEPT !.debris = << [falling EXCEPT !.Pos = Vec(22 * Cell, (27 * Cell) \div 2),
                                               !.FallsThrough = TRUE,
                                               !.WasOnPlatform = FALSE] >>] }
    \cup
    { [situation(<<>>, 3, 1, 0, <<>>, 500)
            EXCEPT !.debris = << newParticle(Vec(x * Cell, 16 * Cell), Vec(0, 5 * Cell), 1,
                                             FALSE, TRUE, roll, FALSE, StartTime) >>] :
            x \in {5, 40}, roll \in RollDraws }
    \cup
    { situation(<< walker(40), walker(2) >>, 3, 1, 1, <<>>, 500),
      situation(<< walker(33) >>, 3, 2, 0, <<>>, 500),
      situation(<< walker(28) >>, 3, 2, 0, <<"Space", "Resize">>, 500),
      [situation(<<>>, 0, 0, 0, <<"Up", "Space">>, 500) EXCEPT !.menu = TRUE],
      [situation(<<>>, 3, 3, 0, <<>>, 50) EXCEPT !.script = SubSeq(script, 1, 2)] }

FairInit ==
    /\ \E h \in LongRuns :
          /\ g = round(h)
          /\ dt = h.dt
          /\ inputChan = h.typed
          /\ pending = h.script
    /\ now = StartTime
    /\ pc = "frame"
    /\ swept = <<>>
    /\ handled = <<>>
    /\ stainedBy = {}

\* the loop is not held up for ever: the ticker fires again and no call of
\* update blocks
FairSpec == FairInit /\ [][Next]_vars /\ WF_pc(GoOn)

\* the events of the run: handled, waiting, and still with the goroutine
events == handled \o inputChan \o pending

\* the run has no Resize
noResize == \A i \in 1..Len(events) : events[i] # "Resize"

\* the active fragments of opponents
opponentDebris(G) == {p \in Fragments(G) : p.Active /\ p.EnemyID # 0}

\* C35: under fair ticking, in a run without Resize, whenever an opponent
\* fragment is active there comes a state in which none is: each one is
\* deactivated and removed, whether it falls through the ground, rolls as a
\* head, bounces from a platform or settles at once.
C35_OpponentDebrisGoes ==
    (opponentDebris(g) # {} /\ noResize) ~> (opponentDebris(g) = {})

\* the fragment that was in the air when the run began has come to rest and
\* has gone, 3 s or more later, in a round that is not over
C35_SettledAndGone ==
    /\ pc = "blood"
    /\ ~g.gameOver
    /\ g.enemiesDefeated = 1
    /\ g.enemies = <<>>
    /\ g.deathParticles = <<>>
    /\ now - StartTime >= settleDelay

----------------------------------------------------------------------------
(* Properties of the lifetime of blood                                     *)

\* the stains of sources that have no active fragment left
bloodOnlyStains(G) ==
    {s \in stains(G) : \A p \in Fragments(G) : p.Active => p.EnemyID # s[3]}

\* C36: updateBloodParticles leaves only active particles with a lifetime
\* above 0, each of them a particle it found, with deltaTime less to live,
\* and no more of them than had more than deltaTime left; under fair ticking
\* blood particles present lead to none present, and the stains of sources
\* without an active fragment lead to none.
C36_BloodRunsOut ==
    /\ [][pc = "blood" /\ pc' # pc =>
             /\ \A j \in 1..Len(g'.bloodParticles) :
                   /\ g'.bloodParticles[j].Active
                   /\ g'.bloodParticles[j].Lifetime > 0
                   /\ \E i \in j..Len(g.bloodParticles) :
                         /\ g.bloodParticles[i].EnemyID = g'.bloodParticles[j].EnemyID
                         /\ g'.bloodParticles[j].Lifetime
                                = g.bloodParticles[i].Lifetime - deltaTime
             /\ Len(g'.bloodParticles)
                    <= Cardinality({i \in 1..Len(g.bloodParticles) :
                                       g.bloodParticles[i].Lifetime > deltaTime})]_vars
    /\ (g.bloodParticles # <<>>) ~> (g.bloodParticles = <<>>)
    /\ (bloodOnlyStains(g) # {}) ~> (bloodOnlyStains(g) = {})

\* the last blood particles have just run out of lifetime in the air, and
\* the sweep is about to remove the stains they kept
C36_LastBloodGone ==
    /\ pc = "sweep"
    /\ g.bloodParticles = <<>>
    /\ bloodOnlyStains(g) # {}

----------------------------------------------------------------------------
(* Properties of the opponents of a round that is over                     *)

\* updateEnemies is about to run in a round that was over before this tick:
\* the fragments of the player are older than the tick
walkedOff ==
    /\ pc = "enemies"
    /\ g.gameOver
    /\ \A k \in remains(g) : g.deathParticles[k].LastBloodEmit < now

\* every opponent updateEnemies keeps is one it found, facing as before
keepOn ==
    \A j \in 1..Len(g'.enemies) :
        \E i \in j..Len(g.enemies) :
            /\ g'.enemies[j].CanShoot = g.enemies[i].CanShoot
            /\ g'.enemies[j].Facing = g.enemies[i].Facing

\* C37 as stated, for any run without a reset: an opponent that has walked
\* towards an edge in a round that is over keeps walking towards it.
C37_NeverTurnsRound == [][walkedOff /\ g'.gameOver => keepOn]_vars

\* C37: while the round is over and is not reset, no opponent is spawned,
\* only updateEnemies changes the opponents, and each opponent it keeps is
\* one it found, further to the right if it was right of the middle of the
\* viewport and further to the left if not; in a run without Resize the
\* opponents never turn round once they have walked towards an edge; under
\* fair ticking a round that is over leads to an empty list of opponents,
\* and the list stays empty.
C37_ArenaEmpties ==
    /\ [][g.gameOver /\ g'.gameOver =>
             /\ g'.enemySpawnCounter = g.enemySpawnCounter
             /\ pc # "enemies" => g'.enemies = g.enemies
             /\ Len(g'.enemies) <= Len(g.enemies)
             /\ \A j \in 1..Len(g'.enemies) :
                   \E i \in j..Len(g.enemies) :
                       LET e == g.enemies[i]
                           f == g'.enemies[j]
                       IN  /\ f.CanShoot = e.CanShoot
                           /\ pc = "enemies" =>
                                  IF 2 * e.Pos.X > g.width * Cell
                                  THEN f.Pos.X > e.Pos.X /\ f.Facing = 1
                                  ELSE f.Pos.X < e.Pos.X /\ f.Facing = -1]_vars
    /\ [][walkedOff /\ g'.gameOver /\ noResize => keepOn]_vars
    /\ g.gameOver ~> (g.enemies = <<>>)

\* the player was defeated with an opponent in the viewport, and the last
\* opponent has now walked out of it
C37_LastOpponentLeft ==
    /\ pc = "corpses"
    /\ g.gameOver
    /\ Cardinality(remains(g)) = 7
    /\ g.enemySpawnCounter = 3
    /\ g.enemies = <<>>
    /\ now - StartTime >= 1500

----------------------------------------------------------------------------
(* Properties of the ids of defeated opponents                             *)

\* the ids on the active fragments, blood particles and corpses and on the
\* stains
idsInUse(G) ==
    liveIDs(G)
    \cup {G.corpses[i].EnemyID : i \in {j \in 1..Len(G.corpses) : G.corpses[j].Active}}
    \cup {s[3] : s \in stains(G)}

\* C38: a step that gives ids to defeated opponents takes them from
\* nextEnemyID on, and none of them is on an active fragment, an active
\* blood particle, an active corpse or a stain before the step.
C38_FreshIds ==
    [][g'.nextEnemyID > g.nextEnemyID =>
          \A id \in g.nextEnemyID..(g'.nextEnemyID - 1) : id \notin idsInUse(g)]_vars

====
